---- MODULE Spec2Model ----
(***************************************************************************)
(* The bounded request dispatcher of src/services/voiceProcessor.js        *)
(* (VoiceProcessor.queueRequest / processQueue) together with the          *)
(* configuration value that sizes it (VoiceConfig.initElevenLabsConfig).   *)
(*                                                                         *)
(* Node.js runs the dispatcher on one event loop, so every action below is *)
(* one run-to-completion turn: a queueRequest call (with the synchronous   *)
(* part of the processQueue call it makes), the settlement of an execute   *)
(* promise, the continuation of processQueue after its await (resolve or   *)
(* reject, then the finally block), and the firing of one setTimeout       *)
(* callback.  The execute functions are asynchronous operations, as at     *)
(* every call site of queueRequest (async arrow functions): invoking one   *)
(* returns a promise and never throws synchronously.                       *)
(*                                                                         *)
(* Around the dispatcher the module has the settings normalizer, the       *)
(* request validators, the error translator, the operations of             *)
(* VoiceProcessor, AgentService.createAgent / deleteAgent with the record  *)
(* store, and DatabaseManager (src/config/database.js), each with a        *)
(* specification of its own over the same variables.                       *)
(***************************************************************************)
EXTENDS Integers, Sequences, FiniteSets, TLC

\* Bound of the model: the number of queueRequest calls.
MaxTasks == 5

Tasks == 1..MaxTasks

\* Request ids (`req-<clock>-<random>`), enough for every request to have
\* its own; NoId marks the absence of a request.
RequestIds == { <<"req", n>> : n \in 1..MaxTasks }

NoId == <<"req", 0>>

(***************************************************************************)
(* Configuration: parseInt(process.env.ELEVENLABS_MAX_CONCURRENT) || 5.    *)
(* A string is a sequence of one-character strings; an unset variable is   *)
(* undefined, which parseInt converts to the string "undefined".           *)
(***************************************************************************)
Undefined == <<"u", "n", "d", "e", "f", "i", "n", "e", "d">>

\* Settings of ELEVENLABS_MAX_CONCURRENT the dispatcher is constructed under:
\* values whose cap binds within MaxTasks requests, and a negative one.
EnvMaxConcurrent ==
  { <<"-", "1">>, <<"1">>, <<"2">>, <<" ", "2", "x">>, <<"\r", "2">> }

NaN == [nan |-> TRUE, val |-> 0]

Num(n) == [nan |-> FALSE, val |-> n]

\* The WhiteSpace and LineTerminator characters of JavaScript, which parseInt,
\* parseFloat, Number and trim skip and \s matches.  A character TLA+ has no
\* escape for is written as its JavaScript escape.
WhiteSpace ==
  { " ", "\t", "\n", "\r", "\f", "\\v", "\\u00A0", "\\u1680", "\\u2000",
    "\\u2001", "\\u2002", "\\u2003", "\\u2004", "\\u2005", "\\u2006",
    "\\u2007", "\\u2008", "\\u2009", "\\u200A", "\\u2028", "\\u2029",
    "\\u202F", "\\u205F", "\\u3000", "\\uFEFF" }

IsSpace(c) == c \in WhiteSpace

DigitValue(c) ==
  CASE c = "0" -> 0 [] c = "1" -> 1 [] c = "2" -> 2 [] c = "3" -> 3
    [] c = "4" -> 4 [] c = "5" -> 5 [] c = "6" -> 6 [] c = "7" -> 7
    [] c = "8" -> 8 [] c = "9" -> 9
    [] c \in {"a", "A"} -> 10 [] c \in {"b", "B"} -> 11
    [] c \in {"c", "C"} -> 12 [] c \in {"d", "D"} -> 13
    [] c \in {"e", "E"} -> 14 [] c \in {"f", "F"} -> 15
    [] OTHER -> 99

IsDigit(c, radix) == DigitValue(c) < radix

RECURSIVE SkipSpace(_, _)
SkipSpace(s, i) ==
  IF i <= Len(s) /\ IsSpace(s[i]) THEN SkipSpace(s, i + 1) ELSE i

RECURSIVE ParseDigits(_, _, _, _)
ParseDigits(s, i, radix, acc) ==
  IF i > Len(s) \/ ~IsDigit(s[i], radix)
  THEN acc
  ELSE ParseDigits(s, i + 1, radix, acc * radix + DigitValue(s[i]))

\* parseInt(string) with no radix argument: leading white space, an optional
\* sign, an optional 0x prefix, then the longest run of digits; NaN if none.
parseInt(s) ==
  LET i == SkipSpace(s, 1)
      signed == i <= Len(s) /\ s[i] \in {"+", "-"}
      sign == IF signed /\ s[i] = "-" THEN -1 ELSE 1
      j == IF signed THEN i + 1 ELSE i
      hex == j + 1 <= Len(s) /\ s[j] = "0" /\ s[j + 1] \in {"x", "X"}
      radix == IF hex THEN 16 ELSE 10
      k == IF hex THEN j + 2 ELSE j
  IN  IF k > Len(s) \/ ~IsDigit(s[k], radix)
      THEN NaN
      ELSE Num(sign * ParseDigits(s, k, radix, 0))

\* JavaScript's  n || d  on a number: NaN and 0 are falsy.
OrDefault(n, d) == IF n.nan \/ n.val = 0 THEN d ELSE n.val

DefaultMaxConcurrent == 5

initElevenLabsConfig(env) ==
  [maxConcurrentRequests |-> OrDefault(parseInt(env), DefaultMaxConcurrent)]

(***************************************************************************)
(* JavaScript values of the voice settings.  A value is a record: t is the *)
(* type (typeof, with "null" and "absent" apart), n the payload of a       *)
(* finite number in tenths (0.5 is 5, 1.5 is 15) or of a boolean (1, 0),   *)
(* s the characters of a string or the name of a number that is not        *)
(* finite.  A finite number that is no multiple of 0.1 has in n its tenths *)
(* cut off towards 0 and in r the sign of what is cut off (0.05 is n = 0,  *)
(* r = 1), which is what the comparisons with 0 and 1 and the truth value  *)
(* of the number depend on.  Absent marks a key an object does not have.   *)
(***************************************************************************)
Absent == [t |-> "absent", n |-> 0, r |-> 0, s |-> <<>>]

JsUndefined == [t |-> "undefined", n |-> 0, r |-> 0, s |-> <<>>]

JsNull == [t |-> "null", n |-> 0, r |-> 0, s |-> <<>>]

JsBoolean(b) == [t |-> "boolean", n |-> IF b THEN 1 ELSE 0, r |-> 0, s |-> <<>>]

JsNumber(tenths) == [t |-> "number", n |-> tenths, r |-> 0, s |-> <<>>]

\* A number strictly between tenths / 10 and the next tenth away from 0 on
\* the side of sign.
JsInexact(tenths, sign) == [t |-> "number", n |-> tenths, r |-> sign, s |-> <<>>]

JsNaN == [t |-> "number", n |-> 0, r |-> 0, s |-> <<"NaN">>]

JsString(chars) == [t |-> "string", n |-> 0, r |-> 0, s |-> chars]

\* Infinity (sign 1) and -Infinity (sign -1).
JsInfinity(sign) == [t |-> "number", n |-> sign, r |-> 0, s |-> <<"Infinity">>]

IsNaN(v) == v.t = "number" /\ v.s = <<"NaN">>

IsFinite(v) == v.t = "number" /\ v.s = <<>>

IsInfinite(v) == v.t = "number" /\ v.s = <<"Infinity">>

\* x < y on numbers that are not NaN.
Below(x, y) ==
  IF IsInfinite(x) THEN x.n < 0 /\ y # x
  ELSE IF IsInfinite(y) THEN y.n > 0
  ELSE x.n < y.n \/ (x.n = y.n /\ x.r < y.r)

\* The end of the run of decimal digits of s that starts at i.
RECURSIVE DigitsEnd(_, _)
DigitsEnd(s, i) ==
  IF i <= Len(s) /\ IsDigit(s[i], 10) THEN DigitsEnd(s, i + 1) ELSE i

RECURSIVE Power10(_)
Power10(n) == IF n = 0 THEN 1 ELSE 10 * Power10(n - 1)

\* m with its last k digits cut off; lost: a digit cut off was not 0.
RECURSIVE CutOff(_, _, _)
CutOff(m, k, lost) ==
  IF k = 0 \/ m = 0 THEN [val |-> m, lost |-> lost]
  ELSE CutOff(m \div 10, k - 1, lost \/ m % 10 # 0)

\* The number of decimal digits of m > 0.
RECURSIVE DigitCount(_)
DigitCount(m) == IF m < 10 THEN 1 ELSE 1 + DigitCount(m \div 10)

\* The first nine digits of m > 0, zeros appended to a shorter m.
Leading(m) ==
  IF m >= Power10(9) THEN m \div 10 ELSE m * Power10(9 - DigitCount(m))

\* The rounding of the decimal m * 10^e10 (m > 0 with its first digit in the
\* units, mag the power of ten of that digit) to a double: "zero" up to
\* 2^-1075 = 2.4703282292...e-324, half of the least double, "infinite"
\* from 2^1024 - 2^970 = 1.7976931348623158...e308 on, the ties going to
\* the even neighbour.
Rounding(m, mag) ==
  IF mag < -324 \/ (mag = -324 /\ Leading(m) <= 247032822) THEN "zero"
  ELSE IF mag > 308 THEN "infinite"
  ELSE IF mag = 308 /\ (IF m >= Power10(9) THEN m >= 1797693135
                                            ELSE Leading(m) >= 179769314)
  THEN "infinite"
  ELSE "finite"

\* The double nearest to sign * m * 10^p tenths, for an m of at most nine
\* digits (the decimal is then what the double prints as): 0 and Infinity
\* past the range of the doubles; a finite number past 10^8 is kept as
\* 10^8 and more.
Scaled(sign, m, p, rounding) ==
  IF rounding = "zero" THEN JsNumber(0)
  ELSE IF rounding = "infinite" THEN JsInfinity(sign)
  ELSE IF DigitCount(m) + p > 9 THEN JsInexact(sign * Power10(9), sign)
  ELSE IF p >= 0 THEN JsNumber(sign * m * Power10(p))
  ELSE JsInexact(sign * CutOff(m, -p, FALSE).val,
                 IF CutOff(m, -p, FALSE).lost THEN sign ELSE 0)

Scale(sign, m, p) ==
  IF m = 0 THEN JsNumber(0)
  ELSE Scaled(sign, m, p, Rounding(m, DigitCount(m) + p - 2))

\* The index of the first digit of the exponent part of s at e (e or E, an
\* optional sign, a digit), 0 if there is none.
ExponentStart(s, e) ==
  LET g == IF e + 1 <= Len(s) /\ s[e + 1] \in {"+", "-"} THEN e + 2 ELSE e + 1
  IN  IF e <= Len(s) /\ s[e] \in {"e", "E"} /\ g <= Len(s) /\ IsDigit(s[g], 10)
      THEN g ELSE 0

\* The digits of the exponent of s from i on, as a number; past 10^5 the
\* value is out of the range of the doubles whatever digits follow.
RECURSIVE ExponentDigits(_, _, _)
ExponentDigits(s, i, acc) ==
  IF i > Len(s) \/ ~IsDigit(s[i], 10) THEN acc
  ELSE ExponentDigits(s, i + 1,
                      IF acc >= Power10(5) THEN acc
                      ELSE acc * 10 + DigitValue(s[i]))

ExponentValue(s, x) ==
  IF x = 0 THEN 0
  ELSE (IF s[x - 1] = "-" THEN -1 ELSE 1) * ExponentDigits(s, x, 0)

\* The StrDecimalLiteral of s at i: an optional sign, then Infinity, or
\* digits, an optional point and digits (at least one digit in all) and an
\* optional exponent.  The value is the decimal value of the literal (the
\* rounding to a double apart).  end is the index after the literal; j
\* is the index after the sign, k after the whole digits, f of the first
\* fractional digit, e after the fractional digits, x of the first digit of
\* the exponent.
ScanExponent(s, sign, j, f, e, x) ==
  [ok |-> TRUE,
   val |-> Scale(sign, ParseDigits(s, f, 10, ParseDigits(s, j, 10, 0)),
                 ExponentValue(s, x) - (e - f) + 1),
   end |-> IF x = 0 THEN e ELSE DigitsEnd(s, x)]

ScanValue(s, sign, j, k, f, e) ==
  IF k > j \/ e > f
  THEN ScanExponent(s, sign, j, f, e, ExponentStart(s, e))
  ELSE [ok |-> FALSE, val |-> JsNaN, end |-> e]

ScanFraction(s, sign, j, k, point) ==
  ScanValue(s, sign, j, k, IF point THEN k + 1 ELSE k,
            IF point THEN DigitsEnd(s, k + 1) ELSE k)

ScanDigits(s, sign, j, k) ==
  ScanFraction(s, sign, j, k, k <= Len(s) /\ s[k] = ".")

Infinity == <<"I", "n", "f", "i", "n", "i", "t", "y">>

ScanUnsigned(s, sign, j) ==
  IF j + 7 <= Len(s) /\ SubSeq(s, j, j + 7) = Infinity
  THEN [ok |-> TRUE, val |-> JsInfinity(sign), end |-> j + 8]
  ELSE ScanDigits(s, sign, j, DigitsEnd(s, j))

ScanSigned(s, i, signed) ==
  ScanUnsigned(s, IF signed /\ s[i] = "-" THEN -1 ELSE 1,
               IF signed THEN i + 1 ELSE i)

ScanDecimal(s, i) == ScanSigned(s, i, i <= Len(s) /\ s[i] \in {"+", "-"})

ScannedOrNaN(d) == IF d.ok THEN d.val ELSE JsNaN

\* parseFloat(string): leading white space, then the longest decimal
\* literal; NaN if there is none (as for an unset variable, "undefined").
parseFloat(s) == ScannedOrNaN(ScanDecimal(s, SkipSpace(s, 1)))

\* The radix of a NonDecimalIntegerLiteral of s at i (0x, 0o, 0b in either
\* case, no sign), 0 if s has no such prefix there.
PrefixRadix(s, i) ==
  IF i + 1 <= Len(s) /\ s[i] = "0"
  THEN CASE s[i + 1] \in {"x", "X"} -> 16
         [] s[i + 1] \in {"o", "O"} -> 8
         [] s[i + 1] \in {"b", "B"} -> 2
         [] OTHER -> 0
  ELSE 0

\* The end of the run of digits of the radix that starts at i.
RECURSIVE RadixDigitsEnd(_, _, _)
RadixDigitsEnd(s, i, radix) ==
  IF i <= Len(s) /\ IsDigit(s[i], radix)
  THEN RadixDigitsEnd(s, i + 1, radix) ELSE i

ScanPrefixed(s, i, radix, end) ==
  [ok |-> end > i + 2,
   val |-> JsNumber(10 * ParseDigits(s, i + 2, radix, 0)),
   end |-> end]

ScanNumeric(s, i, radix) ==
  IF radix = 0 THEN ScanDecimal(s, i)
  ELSE ScanPrefixed(s, i, radix, RadixDigitsEnd(s, i + 2, radix))

\* Number(string): white space is trimmed, the empty string is 0 and the
\* whole of the rest has to be a literal.
WholeOrNaN(s, i, d) ==
  IF i > Len(s) THEN JsNumber(0)
  ELSE IF d.ok /\ SkipSpace(s, d.end) > Len(s) THEN d.val
  ELSE JsNaN

TrimmedToNumber(s, i) == WholeOrNaN(s, i, ScanNumeric(s, i, PrefixRadix(s, i)))

StringToNumber(s) == TrimmedToNumber(s, SkipSpace(s, 1))

\* ToNumber, as Math.min and Math.max apply it to their arguments.
ToNumber(v) ==
  CASE v.t = "number" -> v
    [] v.t = "undefined" -> JsNaN
    [] v.t = "null" -> JsNumber(0)
    [] v.t = "boolean" -> JsNumber(10 * v.n)
    [] v.t = "string" -> StringToNumber(v.s)

\* Variant: ! in place of Boolean().
ToBooleanNegated(v) ==
  CASE v.t = "number" -> JsBoolean(IsNaN(v) \/ (v.n = 0 /\ v.r = 0))
    [] v.t = "undefined" -> JsBoolean(TRUE)
    [] v.t = "null" -> JsBoolean(TRUE)
    [] v.t = "boolean" -> JsBoolean(v.n = 0)
    [] v.t = "string" -> JsBoolean(v.s = <<>>)

\* Boolean(v): undefined, null, false, 0, NaN and "" are falsy.
ToBoolean(v) ==
  CASE v.t = "number" -> JsBoolean(~IsNaN(v) /\ (v.n # 0 \/ v.r # 0))
    [] v.t = "undefined" -> JsBoolean(FALSE)
    [] v.t = "null" -> JsBoolean(FALSE)
    [] v.t = "boolean" -> v
    [] v.t = "string" -> JsBoolean(v.s # <<>>)

\* Math.min(a, b) and Math.max(a, b): NaN if either argument converts to
\* NaN.
MinNumber(x, y) ==
  IF IsNaN(x) \/ IsNaN(y) THEN JsNaN ELSE IF Below(y, x) THEN y ELSE x

MathMin(a, b) == MinNumber(ToNumber(a), ToNumber(b))

MaxNumber(x, y) ==
  IF IsNaN(x) \/ IsNaN(y) THEN JsNaN ELSE IF Below(x, y) THEN y ELSE x

MathMax(a, b) == MaxNumber(ToNumber(a), ToNumber(b))

\* parseFloat(...) || d : NaN and 0 are falsy.
OrDefaultNumber(v, d) == IF IsNaN(v) \/ (v.n = 0 /\ v.r = 0) THEN d ELSE v

\* The keys of a voice settings object.
SettingsKeys == {"stability", "similarityBoost", "style", "speakerBoost"}

NumericKeys == {"stability", "similarityBoost", "style"}

\* The object literal {}.
EmptyObject == [k \in SettingsKeys |-> Absent]

\* The environment the configuration reads its default settings from: the
\* DEFAULT_* variables, each a string, Undefined when it is not set.
EnvUnset ==
  [DEFAULT_STABILITY |-> Undefined, DEFAULT_SIMILARITY_BOOST |-> Undefined,
   DEFAULT_STYLE |-> Undefined, DEFAULT_SPEAKER_BOOST |-> Undefined]

EnvVoiceDefaults ==
  { EnvUnset,
    [EnvUnset EXCEPT !.DEFAULT_SPEAKER_BOOST = <<"t", "r", "u", "e">>],
    [EnvUnset EXCEPT !.DEFAULT_STABILITY = <<"0", ".", "9">>,
                     !.DEFAULT_SPEAKER_BOOST = <<"1">>],
    [EnvUnset EXCEPT !.DEFAULT_STYLE = <<"7">>,
                     !.DEFAULT_SIMILARITY_BOOST = <<"0">>],
    [EnvUnset EXCEPT !.DEFAULT_STYLE = <<"\r", ".", "3">>,
                     !.DEFAULT_STABILITY = Infinity],
    [EnvUnset EXCEPT !.DEFAULT_STABILITY = <<"0", ".", "0", "5">>,
                     !.DEFAULT_SIMILARITY_BOOST = <<"-", "5", "e", "-", "2">>,
                     !.DEFAULT_STYLE = <<"1", "e", "-", "3">>],
    [EnvUnset EXCEPT !.DEFAULT_STABILITY = <<"1", "e", "-", "4", "0", "0">>,
                     !.DEFAULT_SIMILARITY_BOOST = <<"-", "2", "e", "-", "3", "2", "4">>,
                     !.DEFAULT_STYLE = <<"1", "e", "4", "0", "0">>] }

\* VoiceConfig.initVoiceSettings(): the default settings.
initVoiceSettings(env) ==
  [default |->
     [stability |-> OrDefaultNumber(parseFloat(env.DEFAULT_STABILITY), JsNumber(5)),
      similarityBoost |->
        OrDefaultNumber(parseFloat(env.DEFAULT_SIMILARITY_BOOST), JsNumber(5)),
      style |-> OrDefaultNumber(parseFloat(env.DEFAULT_STYLE), JsNumber(0)),
      speakerBoost |-> JsBoolean(env.DEFAULT_SPEAKER_BOOST = <<"t", "r", "u", "e">>)]]

\* { ...a, ...b }: the keys of b, absent ones apart, override those of a.
Spread(a, b) == [k \in SettingsKeys |-> IF b[k] = Absent THEN a[k] ELSE b[k]]

\* Variant: the upper bound is not applied.
ClampBelowOnly(v) == MathMax(JsNumber(0), v)

\* Math.max(0, Math.min(1, v)).
Clamp(v) == MathMax(JsNumber(0), MathMin(JsNumber(10), v))

\* The values a caller puts in the numeric fields of a settings object, and
\* in speakerBoost.
NumericFieldValues ==
  { Absent, JsUndefined, JsNull, JsNaN, JsNumber(-2), JsNumber(0), JsNumber(5),
    JsNumber(10), JsInexact(10, 1), JsNumber(15), JsInfinity(-1), JsBoolean(TRUE),
    JsString(<<"a", "b", "c">>), JsString(<<"0", ".", "7">>),
    JsString(<<"\\uFEFF", "0", "x", "1">>), JsString(<<"2", "e", "-", "1">>),
    JsString(<<"1", "e", "-", "4", "0", "0">>) }

BooleanFieldValues ==
  { Absent, JsUndefined, JsBoolean(TRUE), JsBoolean(FALSE),
    JsString(<<"f", "a", "l", "s", "e">>) }

SettingsInputs ==
  { [stability |-> a, similarityBoost |-> b, style |-> c, speakerBoost |-> d] :
      a \in NumericFieldValues, b \in NumericFieldValues,
      c \in NumericFieldValues, d \in BooleanFieldValues }

\* The settings objects of the callers of generateSpeech: objects with one
\* field, and objects whose numeric fields all hold the same value.
SpeechInputs ==
  { [EmptyObject EXCEPT ![k] = v] : k \in NumericKeys, v \in NumericFieldValues }
    \cup { [stability |-> v, similarityBoost |-> v, style |-> v, speakerBoost |-> d] :
             v \in NumericFieldValues, d \in BooleanFieldValues }

(***************************************************************************)
(* State of the dispatcher.                                                *)
(***************************************************************************)
VARIABLES
  maxConcurrent,   \* this.maxConcurrent
  activeRequests,  \* this.activeRequests: Map from request id to request
  requestQueue,    \* this.requestQueue: array of requests
  awaiting,        \* processQueue invocations suspended at the await:
                   \*   task -> id of the request held by the invocation
  execState,       \* the promise returned by request.execute()
  future,          \* the promise returned by queueRequest
  timers,          \* outstanding setTimeout(() => this.processQueue(), 100)
  nextTask,        \* history: ordinal of the next queueRequest call
  execCount,       \* history: number of times request.execute() was invoked
  settleCount,     \* history: number of request.resolve/reject calls
  dispatchOrder,   \* history: tasks in the order their execute was invoked
  voiceSettings,   \* voiceConfig.voiceSettings (the default settings)
  calls,           \* the VoiceProcessor operation behind each queueRequest
                   \*   call: its name, the error its execute function
                   \*   failed with, and whether it has returned or thrown
  agents,          \* the rows of the agents table of the record store
  db,              \* DatabaseManager: this.db
  initPromise,     \* DatabaseManager: this.initPromise
  initPc,          \* the statement _initialize is awaiting
  initRuns,        \* history: number of times _initialize was invoked
  handle,          \* the connection open() gives: "none", "open", "closed"
  getters,         \* the callers of the DatabaseManager: where each one is
  handlers,        \* the calls of the route handler, of createAgent and of
                   \*   deleteAgent that are suspended at an await before
                   \*   their queueRequest
  returned         \* what the call made in the step just taken handed back
                   \*   to its caller synchronously (NoReturn: nothing)

vars == <<maxConcurrent, activeRequests, requestQueue, awaiting, execState,
          future, timers, nextTask, execCount, settleCount, dispatchOrder,
          voiceSettings, calls, agents, db, initPromise, initPc, initRuns,
          handle, getters, handlers, returned>>

\* The variables of the dispatcher and of the configuration.
queueVars ==
  <<maxConcurrent, activeRequests, requestQueue, awaiting, execState,
    future, timers, nextTask, execCount, settleCount, dispatchOrder,
    voiceSettings>>

\* The variables of the services that call the dispatcher.
databaseVars == <<db, initPromise, initPc, initRuns, handle, getters>>

serviceVars == <<calls, agents, handlers, databaseVars>>

\* The variables of the dispatcher, of the configuration and of the services.
dispatcherVars ==
  <<maxConcurrent, activeRequests, requestQueue, awaiting, execState,
    future, timers, nextTask, execCount, settleCount, dispatchOrder,
    voiceSettings, serviceVars>>

\* A step that hands no value back to a caller.
NoReturn == [op |-> "none"]

ReturnsNothing == returned' = NoReturn

\* No result is waiting for its caller: the next call can be made.
Idle == returned.op = "none"

\* Map operations (activeRequests is a function on the set of its keys).
EmptyMap == [k \in {} |-> 0]

MapSize(m) == Cardinality(DOMAIN m)

MapSet(m, k, v) == [x \in (DOMAIN m) \cup {k} |-> IF x = k THEN v ELSE m[x]]

\* Variant: delete leaves the entry in the map.
MapDeleteNothing(m, k) == m

MapDelete(m, k) == [x \in (DOMAIN m) \ {k} |-> m[x]]

\* Variant: a pending queue that holds one request and drops the others.
PushBounded(q, request) == IF Len(q) >= 1 THEN q ELSE Append(q, request)

\* Array operations of the pending queue.
Push(q, request) == Append(q, request)

\* Variant: pop() in place of shift(), the newest request leaves first.
ShiftNewest(q) == [request |-> q[Len(q)], rest |-> SubSeq(q, 1, Len(q) - 1)]

\* Variant: the head is read and left in the queue.
ShiftPeek(q) == [request |-> Head(q), rest |-> q]

Shift(q) == [request |-> Head(q), rest |-> Tail(q)]

\* Variant: > in place of >= in the guard.
SlotAvailableOffByOne(size, max, queued) == ~(size > max \/ queued = 0)

\* The guard of processQueue (line 18), negated: a dispatch takes place.
SlotAvailable(size, max, queued) == ~(size >= max \/ queued = 0)

\* Variant: a failure rejects every pending future.
SettleFutureRejectAll(fut, t, outcome) ==
  IF outcome = "fulfilled"
  THEN [fut EXCEPT ![t] = "resolved"]
  ELSE [u \in DOMAIN fut |-> IF fut[u] = "pending" THEN "rejected" ELSE fut[u]]

\* Variant: the catch block resolves instead of rejecting.
SettleFutureSwallow(fut, t, outcome) ==
  IF fut[t] = "pending" THEN [fut EXCEPT ![t] = "resolved"] ELSE fut

\* request.resolve(result) / request.reject(error): a promise settles once.
SettleFuture(fut, t, outcome) ==
  IF fut[t] = "pending"
  THEN [fut EXCEPT ![t] = IF outcome = "fulfilled" THEN "resolved" ELSE "rejected"]
  ELSE fut

\* Variant: the finally block schedules nothing.
ScheduleNothing(n) == n

\* setTimeout(() => this.processQueue(), 100) in the finally block.
ScheduleTimer(n) == n + 1

\* The synchronous part of processQueue, run on the pending queue q.
ProcessQueue(q) ==
  IF SlotAvailable(MapSize(activeRequests), maxConcurrent, Len(q))
  THEN LET s == Shift(q)
           request == s.request
       IN  /\ requestQueue' = s.rest
           /\ activeRequests' = MapSet(activeRequests, request.id, request.task)
           /\ awaiting' = [awaiting EXCEPT ![request.task] = request.id]
           /\ execState' = [execState EXCEPT ![request.task] = "running"]
           /\ execCount' = [execCount EXCEPT ![request.task] = @ + 1]
           /\ dispatchOrder' = Append(dispatchOrder, request.task)
  ELSE /\ requestQueue' = q
       /\ UNCHANGED <<activeRequests, awaiting, execState, execCount, dispatchOrder>>

\* No error: the value of the failure of a call whose execute function has
\* not failed.
NoFailure == [none |-> TRUE]

\* No operation is behind a queueRequest call that was not made, or that a
\* caller made directly.
NoCall == [op |-> "none", failure |-> NoFailure, done |-> FALSE]

\* The callers of the DatabaseManager.
Callers == 1..3

\* The statements _initialize awaits one after the other: open, the pragmas,
\* the four tables of createTables and the ten indexes of createIndexes.
InitStatements ==
  <<"open", "pragmas", "table", "table", "table", "table",
    "index", "index", "index", "index", "index",
    "index", "index", "index", "index", "index">>

\* Positions of _initialize: not invoked, awaiting statement i of
\* InitStatements, returned, and thrown.
NotInvoked == 0

Returned == Len(InitStatements) + 1

Threw == Len(InitStatements) + 2

\* DatabaseManager after construction: db and initPromise are null.
DatabaseInit ==
  /\ db = "null"
  /\ initPromise = "null"
  /\ initPc = NotInvoked
  /\ initRuns = 0
  /\ handle = "none"
  /\ getters = [c \in Callers |-> "idle"]

\* Bound of the model: the number of handler calls suspended at a time.
MaxHandlers == 1

Handlers == 1..MaxHandlers

\* A handler slot with no suspended call.
NoHandler == [op |-> "none", pc |-> "none", arg |-> <<>>]

\* The services before any call.
ServiceInit ==
  /\ calls = [t \in Tasks |-> NoCall]
  /\ agents = {}
  /\ handlers = [h \in Handlers |-> NoHandler]
  /\ DatabaseInit

\* The fields the constructor sets whatever the configuration, and the
\* histories and callers at their start.
EmptyDispatcher ==
  /\ activeRequests = EmptyMap
  /\ requestQueue = <<>>
  /\ awaiting = [t \in Tasks |-> NoId]
  /\ execState = [t \in Tasks |-> "none"]
  /\ future = [t \in Tasks |-> "none"]
  /\ timers = 0
  /\ nextTask = 1
  /\ execCount = [t \in Tasks |-> 0]
  /\ settleCount = [t \in Tasks |-> 0]
  /\ dispatchOrder = <<>>
  /\ returned = NoReturn
  /\ ServiceInit

\* The dispatcher after construction.
DispatcherInit ==
  /\ maxConcurrent \in
       { initElevenLabsConfig(env).maxConcurrentRequests : env \in EnvMaxConcurrent }
  /\ EmptyDispatcher

\* The program after the modules are loaded, with no DEFAULT_* variable set.
Init ==
  /\ DispatcherInit
  /\ voiceSettings = initVoiceSettings(EnvUnset)

\* The ids some request still in the dispatcher carries.
LiveIds ==
  {requestQueue[i].id : i \in DOMAIN requestQueue}
    \cup ({awaiting[t] : t \in Tasks} \ {NoId})
    \cup DOMAIN activeRequests

\* The ids a queueRequest call may generate.  The id is built from the clock
\* and a random suffix and checked against nothing, so it is any id: the id
\* of a request still in the dispatcher, or an id no such request carries.
\* The dispatcher only compares ids, so of the ids not in use the one with
\* the least number stands for all of them.
GeneratedIds ==
  LET unused == RequestIds \ LiveIds
  IN  LiveIds \cup { i \in unused : \A j \in unused : i[2] <= j[2] }

\* queueRequest(executeFunction): the new request is pushed and processQueue
\* is called; the new promise is pending.
Enqueue(id) ==
  /\ nextTask <= MaxTasks
  /\ id \in GeneratedIds
  /\ future' = [future EXCEPT ![nextTask] = "pending"]
  /\ nextTask' = nextTask + 1
  /\ ProcessQueue(Push(requestQueue, [id |-> id, task |-> nextTask]))
  /\ UNCHANGED <<voiceSettings, maxConcurrent, timers, settleCount>>

\* A queueRequest call by a caller that hands in its execute function and
\* gets the pending promise.
QueueRequest(id) ==
  /\ Enqueue(id)
  /\ UNCHANGED serviceVars
  /\ ReturnsNothing

\* The external call behind request.execute() completes or fails.
ExecuteSettles(t, outcome) ==
  /\ execState[t] = "running"
  /\ execState' = [execState EXCEPT ![t] = outcome]
  /\ UNCHANGED <<serviceVars, voiceSettings, maxConcurrent, activeRequests, requestQueue, awaiting, future,
                 timers, nextTask, execCount, settleCount, dispatchOrder>>
  /\ ReturnsNothing

\* Variant: the finally block calls this.processQueue() inline.
ContinuationInline(t) ==
  /\ awaiting[t] # NoId
  /\ execState[t] \in {"fulfilled", "failed"}
  /\ future' = SettleFuture(future, t, execState[t])
  /\ settleCount' = [settleCount EXCEPT ![t] = @ + 1]
  /\ LET active == MapDelete(activeRequests, awaiting[t])
     IN  IF SlotAvailable(MapSize(active), maxConcurrent, Len(requestQueue))
         THEN LET request == Head(requestQueue)
              IN  /\ requestQueue' = Tail(requestQueue)
                  /\ activeRequests' = MapSet(active, request.id, request.task)
                  /\ awaiting' = [awaiting EXCEPT ![t] = NoId,
                                                  ![request.task] = request.id]
                  /\ execState' = [execState EXCEPT ![request.task] = "running"]
                  /\ execCount' = [execCount EXCEPT ![request.task] = @ + 1]
                  /\ dispatchOrder' = Append(dispatchOrder, request.task)
         ELSE /\ activeRequests' = active
              /\ awaiting' = [awaiting EXCEPT ![t] = NoId]
              /\ UNCHANGED <<requestQueue, execState, execCount, dispatchOrder>>
  /\ UNCHANGED <<serviceVars, voiceSettings, maxConcurrent, timers, nextTask>>
  /\ ReturnsNothing

\* Variant: a continuation waits until every earlier request is settled.
ContinuationInOrder(t) ==
  /\ awaiting[t] # NoId
  /\ execState[t] \in {"fulfilled", "failed"}
  /\ \A u \in 1..(t - 1) : future[u] \in {"resolved", "rejected"}
  /\ future' = SettleFuture(future, t, execState[t])
  /\ settleCount' = [settleCount EXCEPT ![t] = @ + 1]
  /\ activeRequests' = MapDelete(activeRequests, awaiting[t])
  /\ awaiting' = [awaiting EXCEPT ![t] = NoId]
  /\ timers' = ScheduleTimer(timers)
  /\ UNCHANGED <<serviceVars, voiceSettings, maxConcurrent, requestQueue, execState,
                 nextTask, execCount, dispatchOrder>>
  /\ ReturnsNothing

\* processQueue resumes after the await: resolve or reject, then finally.
Continuation(t) ==
  /\ awaiting[t] # NoId
  /\ execState[t] \in {"fulfilled", "failed"}
  /\ future' = SettleFuture(future, t, execState[t])
  /\ settleCount' = [settleCount EXCEPT ![t] = @ + 1]
  /\ activeRequests' = MapDelete(activeRequests, awaiting[t])
  /\ awaiting' = [awaiting EXCEPT ![t] = NoId]
  /\ timers' = ScheduleTimer(timers)
  /\ UNCHANGED <<serviceVars, voiceSettings, maxConcurrent, requestQueue, execState, nextTask, execCount,
                 dispatchOrder>>
  /\ ReturnsNothing

\* One setTimeout callback runs this.processQueue().
TimerFires ==
  /\ timers > 0
  /\ timers' = timers - 1
  /\ ProcessQueue(requestQueue)
  /\ UNCHANGED <<serviceVars, voiceSettings, maxConcurrent, future, nextTask, settleCount>>
  /\ ReturnsNothing

Next ==
  \/ \E id \in RequestIds : QueueRequest(id)
  \/ \E t \in Tasks : ExecuteSettles(t, "fulfilled")
  \/ \E t \in Tasks : ExecuteSettles(t, "failed")
  \/ \E t \in Tasks : Continuation(t)
  \/ TimerFires

Spec == Init /\ [][Next]_vars

\* The event loop keeps running ready callbacks: while an execute operation
\* is in flight, a continuation is due or a timer is outstanding, one of
\* them eventually runs (each execute settles, each timer fires).  No
\* fairness is assumed of the callers of queueRequest.
EventLoopStep ==
  \/ TimerFires
  \/ \E t \in Tasks : ExecuteSettles(t, "fulfilled") \/ ExecuteSettles(t, "failed")
  \/ \E t \in Tasks : Continuation(t)

Fairness == WF_vars(EventLoopStep)

FairSpec == Spec /\ Fairness

\* Settings of ELEVENLABS_MAX_CONCURRENT of every kind: unset, not a number,
\* zero, negative, positive, and numbers followed or preceded by other
\* characters.
EnvSettings ==
  { Undefined, <<>>, <<"a", "b", "c">>, <<"0">>, <<"-", "1">>, <<"-", "3">>,
    <<"1">>, <<"2">>, <<"3">>, <<"0", "2">>, <<"2", ".", "9">>, <<"0", "x", "2">>,
    <<" ", "+", "1">>, <<"-", "0">>, <<"\\v", "3">>, <<"\\u00A0", "\f", "1">> }

\* The dispatcher constructed under any of these settings, and used.
ConfigInit ==
  /\ maxConcurrent \in
       { initElevenLabsConfig(env).maxConcurrentRequests : env \in EnvSettings }
  /\ EmptyDispatcher
  /\ voiceSettings = initVoiceSettings(EnvUnset)

ConfigSpec == ConfigInit /\ [][Next]_vars

\* The scenario of the specification: maxConcurrent = 2, MaxTasks requests
\* enqueued back to back, each execute resolving only afterwards.
ScenarioInit ==
  /\ Init
  /\ maxConcurrent = initElevenLabsConfig(<<"2">>).maxConcurrentRequests

ScenarioNext ==
  \/ \E id \in RequestIds : QueueRequest(id)
  \/ nextTask > MaxTasks /\ \E t \in Tasks : ExecuteSettles(t, "fulfilled")
  \/ nextTask > MaxTasks /\ \E t \in Tasks : Continuation(t)
  \/ nextTask > MaxTasks /\ TimerFires

ScenarioSpec == ScenarioInit /\ [][ScenarioNext]_vars

\* Variant: the pending count is read from the active set.
getQueueStatusCopyPaste ==
  [activeRequests |-> MapSize(activeRequests),
   queuedRequests |-> MapSize(activeRequests),
   maxConcurrent |-> maxConcurrent,
   bigBrotherCompliant |-> TRUE]

\* The object getQueueStatus() builds from the fields of the dispatcher
\* (bigBrotherCompliant is set to true by the constructor and never written).
getQueueStatus ==
  [activeRequests |-> MapSize(activeRequests),
   queuedRequests |-> Len(requestQueue),
   maxConcurrent |-> maxConcurrent,
   bigBrotherCompliant |-> TRUE]

\* A caller reads the status: the call assigns to no field.
GetQueueStatus ==
  /\ returned' = [op |-> "getQueueStatus", value |-> getQueueStatus]
  /\ UNCHANGED dispatcherVars

\* The dispatcher with callers that read its status between turns.
StatusNext ==
  \/ Next
  \/ GetQueueStatus

StatusSpec == Init /\ [][StatusNext]_vars

(***************************************************************************)
(* The settings normalizer of the configuration and generateSpeech, which  *)
(* normalizes the caller's settings before it enqueues the provider call.  *)
(***************************************************************************)
\* The clamps and the Boolean() of validateVoiceSettings on the merged
\* object.
Normalized(validated) ==
  [stability |-> Clamp(validated.stability),
   similarityBoost |-> Clamp(validated.similarityBoost),
   style |-> Clamp(validated.style),
   speakerBoost |-> ToBoolean(validated.speakerBoost)]

\* VoiceConfig.validateVoiceSettings(settings).
validateVoiceSettings(settings) ==
  Normalized(Spread(voiceSettings.default, settings))

\* A caller normalizes a settings object.
ValidateVoiceSettings(settings) ==
  /\ Idle
  /\ returned' = [op |-> "validateVoiceSettings", pass |-> 1, arg |-> settings,
                  value |-> validateVoiceSettings(settings)]
  /\ UNCHANGED dispatcherVars

\* The caller normalizes the object it got from the normalizer.
ValidateAgain ==
  /\ returned.op = "validateVoiceSettings"
  /\ returned.pass = 1
  /\ returned' = [op |-> "validateVoiceSettings", pass |-> 2, arg |-> returned.value,
                  value |-> validateVoiceSettings(returned.value)]
  /\ UNCHANGED dispatcherVars

\* The caller is done with what the last call handed back.
TakeResult ==
  /\ returned.op # "none"
  /\ ReturnsNothing
  /\ UNCHANGED dispatcherVars

\* The configuration, constructed under any of the environments.
SettingsInit ==
  /\ DispatcherInit
  /\ maxConcurrent = initElevenLabsConfig(<<"2">>).maxConcurrentRequests
  /\ voiceSettings \in { initVoiceSettings(env) : env \in EnvVoiceDefaults }

SettingsNext ==
  \/ Idle /\ \E settings \in SettingsInputs : ValidateVoiceSettings(settings)
  \/ ValidateAgain
  \/ TakeResult

SettingsSpec == SettingsInit /\ [][SettingsNext]_vars

\* generateSpeech(text, voiceId, settings) up to its await: the settings are
\* normalized and the provider call is enqueued; value is the voice_settings
\* object the execute function posts.
GenerateSpeech(settings, id) ==
  /\ Idle
  /\ Enqueue(id)
  /\ UNCHANGED serviceVars
  /\ returned' = [op |-> "generateSpeech", arg |-> settings,
                  value |-> validateVoiceSettings(settings)]

\* Callers of generateSpeech, with the dispatcher running their requests.
SpeechInit ==
  /\ Init
  /\ maxConcurrent = initElevenLabsConfig(<<"2">>).maxConcurrentRequests

SpeechNext ==
  \/ Idle /\ \E settings \in SpeechInputs : \E id \in RequestIds :
       GenerateSpeech(settings, id)
  \/ TakeResult

SpeechSpec == SpeechInit /\ [][SpeechNext]_vars

(***************************************************************************)
(* The request validators of src/utils/validators.js.                      *)
(***************************************************************************)
\* typeof v (null is an object).
TypeOf(v) == IF v.t = "null" THEN "object" ELSE v.t

\* const { key = d } = settings: the default replaces undefined, whether the
\* key is missing or set to undefined.
Destructure(settings, key, d) ==
  IF settings[key] \in {Absent, JsUndefined} THEN d ELSE settings[key]

\* v < bound and v > bound on a value whose typeof is number: false for NaN.
LessThan(v, bound) == ~IsNaN(v) /\ Below(v, JsNumber(bound))

GreaterThan(v, bound) == ~IsNaN(v) /\ Below(JsNumber(bound), v)

\* typeof v !== 'number' || v < 0 || v > 1
NotNumberInRange(v) ==
  TypeOf(v) # "number" \/ LessThan(v, 0) \/ GreaterThan(v, 10)

\* { isValid: errors.length === 0, errors, sanitized }
ValidationResult(errors, sanitized) ==
  [isValid |-> Len(errors) = 0, errors |-> errors, sanitized |-> sanitized]

\* The checks of validateVoiceSettings on the destructured fields.
CheckedSettings(stability, similarityBoost, style, speakerBoost) ==
  ValidationResult(
    (IF NotNumberInRange(stability)
     THEN <<"Stability must be a number between 0 and 1">> ELSE <<>>)
    \o (IF NotNumberInRange(similarityBoost)
        THEN <<"Similarity boost must be a number between 0 and 1">> ELSE <<>>)
    \o (IF NotNumberInRange(style)
        THEN <<"Style must be a number between 0 and 1">> ELSE <<>>)
    \o (IF TypeOf(speakerBoost) # "boolean"
        THEN <<"Speaker boost must be a boolean">> ELSE <<>>),
    [stability |-> Clamp(stability),
     similarityBoost |-> Clamp(similarityBoost),
     style |-> Clamp(style),
     speakerBoost |-> ToBoolean(speakerBoost)])

\* validators.validateVoiceSettings(settings).
validators_validateVoiceSettings(settings) ==
  CheckedSettings(Destructure(settings, "stability", JsNumber(5)),
                  Destructure(settings, "similarityBoost", JsNumber(5)),
                  Destructure(settings, "style", JsNumber(0)),
                  Destructure(settings, "speakerBoost", JsBoolean(TRUE)))

\* A caller validates a settings object.
ValidatorsValidateVoiceSettings(settings) ==
  /\ Idle
  /\ returned' = [op |-> "validators.validateVoiceSettings", arg |-> settings,
                  value |-> validators_validateVoiceSettings(settings)]
  /\ UNCHANGED dispatcherVars

ValidatorNext ==
  \/ Idle /\ \E settings \in SettingsInputs : ValidatorsValidateVoiceSettings(settings)
  \/ TakeResult

ValidatorSpec == SpeechInit /\ [][ValidatorNext]_vars

\* Character classes of the regular expressions.
LowerCase ==
  { "a", "b", "c", "d", "e", "f", "g", "h", "i", "j", "k", "l", "m",
    "n", "o", "p", "q", "r", "s", "t", "u", "v", "w", "x", "y", "z" }

UpperCase ==
  { "A", "B", "C", "D", "E", "F", "G", "H", "I", "J", "K", "L", "M",
    "N", "O", "P", "Q", "R", "S", "T", "U", "V", "W", "X", "Y", "Z" }

Digits ==
  { "0", "1", "2", "3", "4", "5", "6", "7", "8", "9" }

\* /^[a-zA-Z0-9-_]+$/ of the agent id.
AgentIdChars == LowerCase \cup UpperCase \cup Digits \cup {"-", "_"}

\* /^[a-zA-Z0-9\s._-]+$/ of the agent name.
NameChars == LowerCase \cup UpperCase \cup Digits \cup WhiteSpace \cup {".", "_", "-"}

\* /^[a-zA-Z0-9._-]+$/ of the file name.
FilenameChars == LowerCase \cup UpperCase \cup Digits \cup {".", "_", "-"}

\* /^[class]+$/.test(chars)
Test(class, chars) == Len(chars) >= 1 /\ \A i \in DOMAIN chars : chars[i] \in class

UpperToLower ==
  "A" :> "a" @@ "B" :> "b" @@ "C" :> "c" @@ "D" :> "d" @@ "E" :> "e"
    @@ "F" :> "f" @@ "G" :> "g" @@ "H" :> "h" @@ "I" :> "i" @@ "J" :> "j"
    @@ "K" :> "k" @@ "L" :> "l" @@ "M" :> "m" @@ "N" :> "n" @@ "O" :> "o"
    @@ "P" :> "p" @@ "Q" :> "q" @@ "R" :> "r" @@ "S" :> "s" @@ "T" :> "t"
    @@ "U" :> "u" @@ "V" :> "v" @@ "W" :> "w" @@ "X" :> "x" @@ "Y" :> "y"
    @@ "Z" :> "z"

\* String.prototype.toLowerCase, on the letters of the classes above.
toLowerCase(chars) ==
  [i \in DOMAIN chars |->
     IF chars[i] \in UpperCase THEN UpperToLower[chars[i]] ELSE chars[i]]

\* path.extname(path) of Node (posix), which scans the path from its end
\* with 0-based indices: end is the index after the last character that is
\* no trailing slash, startPart the index of the first character of the
\* last component, startDot the index of the last "." of that component,
\* preDotState 0 while no character before that "." has been seen, 1 after
\* a "." and -1 after any other character.
ExtnameEnd(i, st) ==
  IF st.end = -1 THEN [st EXCEPT !.matchedSlash = FALSE, !.end = i + 1] ELSE st

ExtnameChar(c, i, st) ==
  IF c = "."
  THEN IF st.startDot = -1 THEN [st EXCEPT !.startDot = i]
       ELSE [st EXCEPT !.preDotState = 1]
  ELSE IF st.startDot # -1 THEN [st EXCEPT !.preDotState = -1]
  ELSE st

RECURSIVE ExtnameScan(_, _, _)
ExtnameScan(chars, i, st) ==
  IF i < 0 THEN st
  ELSE IF chars[i + 1] = "/"
  THEN IF ~st.matchedSlash THEN [st EXCEPT !.startPart = i + 1]
       ELSE ExtnameScan(chars, i - 1, st)
  ELSE ExtnameScan(chars, i - 1, ExtnameChar(chars[i + 1], i, ExtnameEnd(i, st)))

\* The extension: empty if the component has no ".", if its last "." is its
\* first character, or if it is ".."; otherwise path.slice(startDot, end).
ExtnameSlice(chars, st) ==
  IF \/ st.startDot = -1
     \/ st.end = -1
     \/ st.preDotState = 0
     \/ (st.preDotState = 1 /\ st.startDot = st.end - 1
           /\ st.startDot = st.startPart + 1)
  THEN <<>>
  ELSE SubSeq(chars, st.startDot + 1, st.end)

extname(chars) ==
  ExtnameSlice(chars,
               ExtnameScan(chars, Len(chars) - 1,
                           [startDot |-> -1, startPart |-> 0, end |-> -1,
                            matchedSlash |-> TRUE, preDotState |-> 0]))

\* A settings object (the other values of this model are primitive).
IsObject(v) == DOMAIN v = SettingsKeys

\* if (v): an object is truthy.
Truthy(v) == IF IsObject(v) THEN TRUE ELSE ToBoolean(v).n = 1

\* typeof v, objects included.
TypeOfValue(v) == IF IsObject(v) THEN "object" ELSE TypeOf(v)

\* The properties a destructuring reads from v: none if v is a primitive.
PropertiesOf(v) == IF IsObject(v) THEN v ELSE EmptyObject

\* v || {}
OrEmptyObject(v) == IF Truthy(v) THEN v ELSE EmptyObject

\* The end of chars without its trailing white space.
RECURSIVE TrimEnd(_, _)
TrimEnd(chars, i) ==
  IF i >= 1 /\ IsSpace(chars[i]) THEN TrimEnd(chars, i - 1) ELSE i

\* String.prototype.trim.
trim(chars) == SubSeq(chars, SkipSpace(chars, 1), TrimEnd(chars, Len(chars)))

\* v?.trim(): undefined for undefined and null, the trimmed string for a
\* string; any other value has no trim method and the call throws.
IsNullish(v) == ~IsObject(v) /\ v.t \in {"undefined", "null", "absent"}

TrimThrows(v) == ~IsNullish(v) /\ TypeOfValue(v) # "string"

OptionalTrim(v) ==
  IF IsNullish(v) \/ TrimThrows(v) THEN JsUndefined ELSE JsString(trim(v.s))

\* No upload: req.file is undefined.
NoFile == [originalname |-> <<>>, size |-> -1]

supportedAudioFormats ==
  { <<".", "m", "p", "3">>, <<".", "w", "a", "v">>, <<".", "m", "4", "a">>,
    <<".", "f", "l", "a", "c">>, <<".", "o", "g", "g">> }

\* parseInt(process.env.MAX_AUDIO_SIZE) || 50 * 1024 * 1024, the variable
\* not set.
maxFileSize == OrDefault(parseInt(Undefined), 50 * 1024 * 1024)

\* validators.validateAudioFile(file).
FileErrors(file, ext) ==
  (IF ext \notin supportedAudioFormats
   THEN <<"Unsupported format. Allowed: .mp3, .wav, .m4a, .flac, .ogg">>
   ELSE <<>>)
    \o (IF file.size > maxFileSize
        THEN <<"File too large. Max size: 50MB">> ELSE <<>>)
    \o (IF file.size < 1024 THEN <<"File too small. Minimum size: 1KB">> ELSE <<>>)
    \o (IF ~Test(FilenameChars, file.originalname)
        THEN <<"Invalid filename. Use only letters, numbers, dots, underscores, and hyphens">>
        ELSE <<>>)

validateAudioFile(file) ==
  IF file = NoFile
  THEN ValidationResult(<<"Audio file is required">>, NoFile)
  ELSE ValidationResult(FileErrors(file, toLowerCase(extname(file.originalname))),
                        file)

\* The errors of the settings of a request, which are validated only when
\* they are truthy.
ErrorsOf(validation) == IF ~validation.isValid THEN validation.errors ELSE <<>>

SettingsErrors(settings) ==
  IF Truthy(settings)
  THEN ErrorsOf(validators_validateVoiceSettings(PropertiesOf(settings)))
  ELSE <<>>

\* The message of the TypeError of  v?.trim()  if it throws; the properties
\* of the sanitized object are evaluated in order, so the first one that
\* throws gives the message, and "" stands for no throw.
TrimError(v, message, otherwise) == IF TrimThrows(v) THEN message ELSE otherwise

\* validators.validateVoiceCloneRequest(data); threw: building the sanitized
\* object raised a TypeError, with this message, and nothing is returned.
RequestResult(message, errors, sanitized) ==
  [threw |-> message # "", message |-> message, isValid |-> Len(errors) = 0,
   errors |-> errors, sanitized |-> sanitized]

NameErrors(name) ==
  IF ~Truthy(name) \/ TypeOfValue(name) # "string"
  THEN <<"Agent name is required and must be a string">>
  ELSE IF Len(name.s) < 2 \/ Len(name.s) > 50
  THEN <<"Agent name must be 2-50 characters long">>
  ELSE IF ~Test(NameChars, name.s)
  THEN <<"Agent name contains invalid characters">>
  ELSE <<>>

DescriptionErrors(description) ==
  IF Truthy(description) /\ TypeOfValue(description) # "string"
  THEN <<"Description must be a string">>
  ELSE IF Truthy(description) /\ Len(description.s) > 500
  THEN <<"Description must be under 500 characters">>
  ELSE <<>>

VoiceFileErrors(voiceFile) ==
  IF voiceFile # NoFile THEN ErrorsOf(validateAudioFile(voiceFile)) ELSE <<>>

CloneSettingsErrors(settings) ==
  IF Truthy(settings) /\ TypeOfValue(settings) # "object"
  THEN <<"Settings must be an object">>
  ELSE SettingsErrors(settings)

validateVoiceCloneRequest(data) ==
  RequestResult(
    TrimError(data.name, "name?.trim is not a function",
              TrimError(data.description, "description?.trim is not a function", "")),
    NameErrors(data.name) \o DescriptionErrors(data.description)
      \o VoiceFileErrors(data.voiceFile) \o CloneSettingsErrors(data.settings),
    [name |-> OptionalTrim(data.name),
     description |-> OptionalTrim(data.description),
     settings |-> OrEmptyObject(data.settings)])

\* validators.validateTextToSpeechRequest(data); threw as above.
TextErrors(text) ==
  IF ~Truthy(text) \/ TypeOfValue(text) # "string"
  THEN <<"Text is required and must be a string">>
  ELSE IF Len(text.s) < 1
  THEN <<"Text cannot be empty">>
  ELSE IF Len(text.s) > 5000
  THEN <<"Text must be under 5000 characters">>
  ELSE <<>>

AgentIdErrors(agentId) ==
  IF ~Truthy(agentId) \/ TypeOfValue(agentId) # "string"
  THEN <<"Agent ID is required and must be a string">>
  ELSE IF ~Test(AgentIdChars, agentId.s)
  THEN <<"Invalid agent ID format">>
  ELSE <<>>

validateTextToSpeechRequest(data) ==
  RequestResult(
    TrimError(data.text, "text?.trim is not a function",
              TrimError(data.agentId, "agentId?.trim is not a function", "")),
    TextErrors(data.text) \o AgentIdErrors(data.agentId)
      \o SettingsErrors(data.settings),
    [text |-> OptionalTrim(data.text), agentId |-> OptionalTrim(data.agentId),
     settings |-> OrEmptyObject(data.settings)])

\* validators.validateAgentId(agentId), as getAgent calls it; threw as above.
validateAgentId(agentId) ==
  RequestResult(
    TrimError(agentId, "agentId?.trim is not a function", ""),
    IF ~Truthy(agentId) \/ TypeOfValue(agentId) # "string"
    THEN <<"Agent ID is required and must be a string">>
    ELSE IF ~Test(AgentIdChars, agentId.s)
    THEN <<"Agent ID can only contain letters, numbers, hyphens, and underscores">>
    ELSE IF Len(agentId.s) < 3 \/ Len(agentId.s) > 50
    THEN <<"Agent ID must be 3-50 characters long">>
    ELSE <<>>,
    OptionalTrim(agentId))

(***************************************************************************)
(* The requests of the synthesize route and of agentService.createAgent,   *)
(* and what their handlers hand back.                                      *)
(***************************************************************************)
\* A text over the limit of 5000 characters.
LongText == [i \in 1..5001 |-> "a"]

\* The settings of the request bodies: none, empty, valid, out of range, not
\* a number, and not an object.
BodySettings ==
  { JsUndefined, EmptyObject,
    [EmptyObject EXCEPT !.stability = JsNumber(7), !.speakerBoost = JsBoolean(FALSE)],
    [EmptyObject EXCEPT !.stability = JsNumber(15)],
    [EmptyObject EXCEPT !.style = JsString(<<"a", "b", "c">>)],
    JsString(<<"a", "b", "c">>) }

\* Bodies of POST /synthesize.
SynthesizeBodies ==
  { [text |-> t, agentId |-> a, settings |-> st] :
      t \in { JsUndefined, JsNumber(5), JsString(<<>>), JsString(<<"h", "i", " ">>),
              JsString(LongText) },
      a \in { JsUndefined, JsString(<<"a", "1">>), JsString(<<"a", "g", "-", "1">>),
              JsString(<<"a", " ", "1">>) },
      st \in BodySettings }

\* The uploads of a createAgent call.
AudioFiles ==
  { NoFile,
    [originalname |-> <<"v", ".", "M", "P", "3">>, size |-> 2048],
    [originalname |-> <<"v", ".", "t", "x", "t">>, size |-> 2048],
    [originalname |-> <<".", ".">>, size |-> 2048],
    [originalname |-> <<"v", ".", "m", "p", "3", "/">>, size |-> 2048],
    [originalname |-> <<"v", ".", "w", "a", "v">>, size |-> 100] }

\* The agent data of a createAgent call, with the upload.
CreateAgentData ==
  { [name |-> nm, description |-> d, settings |-> st, voiceFile |-> f] :
      nm \in { JsUndefined, JsString(<<"A">>), JsString(<<"A", "\r", "l", " ">>),
               JsString(<<"A", "l", "!">>) },
      d \in { JsUndefined, JsString(<<"d">>), JsNumber(5) },
      st \in BodySettings,
      f \in AudioFiles }

\* The settings stored with an agent.
AgentSettings ==
  { EmptyObject, [EmptyObject EXCEPT !.style = JsNumber(2)] }

\* What a handler hands back: the status and error of the response or of
\* the thrown error (status 0 and no error while the request is in the
\* dispatcher), the validation errors, and the settings it enqueued.
Response(op, arg, status, error, details, value) ==
  [op |-> op, arg |-> arg, status |-> status, error |-> error,
   details |-> details, value |-> value]

\* Variant: the result of the validation is not looked at.
RejectsNothing(validation) == FALSE

\* if (!validation.isValid)
Rejects(validation) == ~validation.isValid

(***************************************************************************)
(* The error translator, handleElevenLabsError.  An error has a message    *)
(* and, when the provider answered, a response with a status and a body    *)
(* that may carry a detail text; a message built by a template literal is  *)
(* the sequence of its parts.                                              *)
(***************************************************************************)
\* The errors the provider calls fail with: no response (a transport
\* failure), a response with no status, and responses with a status, each
\* with or without a detail.
ErrorMessages == {"Request failed", "timeout of 30000ms exceeded", "socket hang up"}

DetailTexts == {"", "voice_not_found", "quota_exceeded", "text too long"}

Statuses == {200, 400, 401, 402, 404, 422, 429, 500, 503, 999}

NoResponseError(m) ==
  [hasResponse |-> FALSE, hasStatus |-> FALSE, status |-> 0,
   hasDetail |-> FALSE, detail |-> "", message |-> m]

ProviderErrors ==
  { NoResponseError(m) : m \in ErrorMessages }
    \cup { [hasResponse |-> TRUE, hasStatus |-> FALSE, status |-> 0,
            hasDetail |-> TRUE, detail |-> d, message |-> m] :
             d \in DetailTexts, m \in ErrorMessages }
    \cup { [hasResponse |-> TRUE, hasStatus |-> TRUE, status |-> st,
            hasDetail |-> FALSE, detail |-> "", message |-> m] :
             st \in Statuses, m \in ErrorMessages }
    \cup { [hasResponse |-> TRUE, hasStatus |-> TRUE, status |-> st,
            hasDetail |-> TRUE, detail |-> d, message |-> m] :
             st \in Statuses, d \in DetailTexts, m \in ErrorMessages }

\* Variant: the detail is taken whether or not there is one.
MessageOfDetailOnly(error) == error.detail

\* error.response?.data?.detail || error.message: a missing or empty detail
\* is falsy.
MessageOf(error) ==
  IF error.hasResponse /\ error.hasDetail /\ error.detail # ""
  THEN error.detail
  ELSE error.message

\* Variant: the table has no entry for 429.
errorMapWithout429(message) ==
  (401 :> <<"Invalid ElevenLabs API key">>)
    @@ (402 :> <<"ElevenLabs quota exceeded">>)
    @@ (422 :> <<"Invalid request: ", message>>)
    @@ (500 :> <<"ElevenLabs server error">>)

errorMap(message) ==
  (401 :> <<"Invalid ElevenLabs API key">>)
    @@ (402 :> <<"ElevenLabs quota exceeded">>)
    @@ (422 :> <<"Invalid request: ", message>>)
    @@ (429 :> <<"ElevenLabs rate limit exceeded">>)
    @@ (500 :> <<"ElevenLabs server error">>)

\* handleElevenLabsError(error): errorMap[status] || the generic message
\* (undefined is no key of the table, and every entry is truthy).
Lookup(error, map, message) ==
  IF error.hasResponse /\ error.hasStatus /\ error.status \in DOMAIN map
  THEN map[error.status]
  ELSE <<"ElevenLabs API error: ", message>>

handleElevenLabsError(error) ==
  Lookup(error, errorMap(MessageOf(error)), MessageOf(error))

\* The catch block of a provider operation translates the error it caught.
HandleElevenLabsError(error) ==
  /\ Idle
  /\ returned' = [op |-> "handleElevenLabsError", arg |-> error,
                  value |-> handleElevenLabsError(error)]
  /\ UNCHANGED dispatcherVars

ErrorNext ==
  \/ Idle /\ \E error \in ProviderErrors : HandleElevenLabsError(error)
  \/ TakeResult

ErrorSpec == SpeechInit /\ [][ErrorNext]_vars

(***************************************************************************)
(* The operations of VoiceProcessor (createVoiceClone, deleteVoice, ...).  *)
(* Each enqueues an execute function, awaits the promise of queueRequest   *)
(* inside a try block, and in the catch block throws what                  *)
(* handleElevenLabsError makes of the error it caught.                     *)
(***************************************************************************)
\* Bound of the specifications of the operations: the number of calls.
MaxCalls == 3

\* Errors that are not the provider's: fs.createReadStream(audioFilePath)
\* with no path (createAgent with no upload passes undefined), and a file
\* that cannot be opened.  Neither has a response.
InfrastructureErrors ==
  { NoResponseError("The \"path\" argument must be of type string or an instance of Buffer or URL. Received undefined"),
    NoResponseError("ENOENT: no such file or directory, open 'uploads/voice.mp3'") }

\* The errors an execute function of an operation rejects with: the
\* provider's, a transport failure, or, where the function touches the
\* file system, an infrastructure error.
RateLimited ==
  [hasResponse |-> TRUE, hasStatus |-> TRUE, status |-> 429,
   hasDetail |-> TRUE, detail |-> "quota_exceeded", message |-> "Request failed"]

FailuresOf(op) ==
  {RateLimited, NoResponseError("socket hang up")}
    \cup (IF op = "createVoiceClone" THEN InfrastructureErrors ELSE {})

Operations == {"createVoiceClone", "deleteVoice"}

\* An operation is called: up to its await, it enqueues its execute
\* function.
CallOperation(op, id) ==
  /\ nextTask <= MaxCalls
  /\ Enqueue(id)
  /\ calls' = [calls EXCEPT ![nextTask] = [op |-> op, failure |-> NoFailure,
                                           done |-> FALSE]]
  /\ UNCHANGED <<agents, handlers, databaseVars>>
  /\ ReturnsNothing

\* The execute function of an operation rejects with an error.
ExecuteFailsWith(t, error) ==
  /\ execState[t] = "running"
  /\ error \in FailuresOf(calls[t].op)
  /\ execState' = [execState EXCEPT ![t] = "failed"]
  /\ calls' = [calls EXCEPT ![t].failure = error]
  /\ UNCHANGED <<voiceSettings, maxConcurrent, activeRequests, requestQueue,
                 awaiting, future, timers, nextTask, execCount, settleCount,
                 dispatchOrder, agents, handlers, databaseVars>>
  /\ ReturnsNothing

\* throw this.handleElevenLabsError(error): the message of the error the
\* caller of the operation receives.
Thrown(error) == handleElevenLabsError(error)

\* The operation resumes after  await this.queueRequest(...) : it returns
\* its result, or its catch block throws.
OperationSettles(t) ==
  /\ calls[t].op # "none"
  /\ ~calls[t].done
  /\ future[t] \in {"resolved", "rejected"}
  /\ calls' = [calls EXCEPT ![t].done = TRUE]
  /\ returned' = [op |-> calls[t].op, task |-> t,
                  threw |-> future[t] = "rejected",
                  failure |-> calls[t].failure,
                  message |-> IF future[t] = "rejected"
                              THEN Thrown(calls[t].failure)
                              ELSE <<>>]
  /\ UNCHANGED <<maxConcurrent, activeRequests, requestQueue, awaiting,
                 execState, future, timers, nextTask, execCount, settleCount,
                 dispatchOrder, voiceSettings, agents, handlers, databaseVars>>

OperationNext ==
  \/ \E op \in Operations : \E id \in RequestIds : CallOperation(op, id)
  \/ \E t \in Tasks : ExecuteSettles(t, "fulfilled")
  \/ \E t \in Tasks : \E error \in FailuresOf(calls[t].op) : ExecuteFailsWith(t, error)
  \/ \E t \in Tasks : Continuation(t)
  \/ TimerFires
  \/ \E t \in Tasks : OperationSettles(t)

OperationSpec == SpeechInit /\ [][OperationNext]_vars

(***************************************************************************)
(* DatabaseManager of src/config/database.js: initialize, _initialize,     *)
(* getDatabase and close, called by several callers on the one event loop. *)
(* A step is what runs between two awaits.                                 *)
(***************************************************************************)
\* What a call of the DatabaseManager hands back when it returns or throws:
\* for getDatabase the value of this.db at the return, with what is true of
\* the connection at that moment.
DatabaseResult(op, c, threw) ==
  [op |-> op, caller |-> c, threw |-> threw,
   value |-> IF op = "getDatabase" /\ ~threw THEN db ELSE "undefined",
   initialized |-> initPc = Returned,
   open |-> handle = "open"]

\* initialize(): the promise of the first call is handed to every later
\* one; the first call invokes _initialize, which runs up to  await open().
initialize ==
  IF initPromise # "null"
  THEN UNCHANGED <<initPromise, initPc, initRuns>>
  ELSE /\ initPromise' = "pending"
       /\ initPc' = 1
       /\ initRuns' = initRuns + 1

\* getDatabase(): with a db it returns it at once; with none it awaits
\* initialize().
GetDatabase(c) ==
  /\ getters[c] = "idle"
  /\ IF db # "null"
     THEN /\ returned' = DatabaseResult("getDatabase", c, FALSE)
          /\ UNCHANGED databaseVars
     ELSE /\ initialize
          /\ getters' = [getters EXCEPT ![c] = "getDatabase"]
          /\ UNCHANGED <<db, handle>>
          /\ ReturnsNothing
  /\ UNCHANGED <<queueVars, calls, agents, handlers>>

\* A caller calls initialize() and awaits its promise.
Initialize(c) ==
  /\ getters[c] = "idle"
  /\ initialize
  /\ getters' = [getters EXCEPT ![c] = "initialize"]
  /\ UNCHANGED <<db, handle, queueVars, calls, agents, handlers>>
  /\ ReturnsNothing

\* The statement _initialize awaits completes: open() gives the connection,
\* which is assigned to this.db; then the next statement is issued through
\* this.db (a TypeError if close() has set it to null meanwhile), or, after
\* the last one, _initialize returns.
InitializeAdvances ==
  /\ initPc \in 1..Len(InitStatements)
  /\ IF initPc = 1
     THEN db' = "handle" /\ handle' = "open"
     ELSE UNCHANGED <<db, handle>>
  /\ IF initPc = Len(InitStatements)
     THEN initPc' = Returned /\ initPromise' = "resolved"
     ELSE IF db' = "null"
     THEN initPc' = Threw /\ initPromise' = "rejected"
     ELSE initPc' = initPc + 1 /\ UNCHANGED initPromise
  /\ UNCHANGED <<initRuns, getters, queueVars, calls, agents, handlers>>
  /\ ReturnsNothing

\* The statement _initialize awaits fails: the catch block rethrows.
InitializeFails ==
  /\ initPc \in 1..Len(InitStatements)
  /\ initPc' = Threw
  /\ initPromise' = "rejected"
  /\ UNCHANGED <<db, handle, initRuns, getters, queueVars, calls, agents, handlers>>
  /\ ReturnsNothing

\* A caller resumes after  await this.initialize() : getDatabase returns
\* this.db as it is now, or the rejection is thrown on.
InitializeSettled(c) ==
  /\ getters[c] \in {"getDatabase", "initialize"}
  /\ initPromise \in {"resolved", "rejected"}
  /\ returned' = DatabaseResult(getters[c], c, initPromise = "rejected")
  /\ getters' = [getters EXCEPT ![c] = "idle"]
  /\ UNCHANGED <<db, initPromise, initPc, initRuns, handle, queueVars, calls, agents, handlers>>

\* close(): with a db,  await this.db.close()  (on a connection another
\* call is closing already: "closeAgain"); with none the call returns.
Close(c) ==
  /\ getters[c] = "idle"
  /\ IF db # "null"
     THEN /\ handle' = "closed"
          /\ getters' = [getters EXCEPT ![c] = IF handle = "open" THEN "close"
                                                ELSE "closeAgain"]
          /\ ReturnsNothing
     ELSE /\ returned' = DatabaseResult("close", c, FALSE)
          /\ UNCHANGED <<handle, getters>>
  /\ UNCHANGED <<db, initPromise, initPc, initRuns, queueVars, calls, agents, handlers>>

\* close() resumes after  await this.db.close() : this.db = null.
CloseSettled(c) ==
  /\ getters[c] = "close"
  /\ db' = "null"
  /\ getters' = [getters EXCEPT ![c] = "idle"]
  /\ returned' = DatabaseResult("close", c, FALSE)
  /\ UNCHANGED <<initPromise, initPc, initRuns, handle, queueVars, calls, agents, handlers>>

\* await this.db.close()  rejects: close() throws to its caller and this.db
\* keeps the connection, which stays open unless the call was made on a
\* connection that another call closes.
CloseFails(c) ==
  /\ getters[c] \in {"close", "closeAgain"}
  /\ handle' = IF getters[c] = "close" THEN "open" ELSE handle
  /\ getters' = [getters EXCEPT ![c] = "idle"]
  /\ returned' = [DatabaseResult("close", c, TRUE) EXCEPT !.open = handle' = "open"]
  /\ UNCHANGED <<db, initPromise, initPc, initRuns, queueVars, calls, agents, handlers>>

DatabaseNext ==
  \/ \E c \in Callers : GetDatabase(c)
  \/ \E c \in Callers : Initialize(c)
  \/ InitializeAdvances
  \/ InitializeFails
  \/ \E c \in Callers : InitializeSettled(c)
  \/ \E c \in Callers : Close(c)
  \/ \E c \in Callers : CloseSettled(c)
  \/ \E c \in Callers : CloseFails(c)

DatabaseSpec == SpeechInit /\ [][DatabaseNext]_vars

(***************************************************************************)
(* The synthesize route and agentService.createAgent up to the point where *)
(* the request is in the dispatcher.  A step is what runs between two      *)
(* awaits: the route validates the body and calls getAgent, which awaits   *)
(* getDatabase and then db.get; createAgent validates the data and, with   *)
(* an upload, awaits processUpload.  Other callers run in between.  The    *)
(* outcome of the lookup and of the upload is an input.                    *)
(***************************************************************************)
\* The call is suspended at an await, in the first free slot.
Suspended(h, op, pc, arg) ==
  /\ handlers[h] = NoHandler
  /\ \A g \in Handlers : g < h => handlers[g] # NoHandler
  /\ handlers' = [handlers EXCEPT ![h] = [op |-> op, pc |-> pc, arg |-> arg]]

\* The call ends with a response or a thrown error and nothing enqueued.
Responds(op, arg, status, error, details) ==
  /\ returned' = Response(op, arg, status, error, details, EmptyObject)
  /\ UNCHANGED queueVars

\* The suspended call ends so.
Finishes(h, status, error) ==
  /\ Responds(handlers[h].op, handlers[h].arg, status, error, <<>>)
  /\ handlers' = [handlers EXCEPT ![h] = NoHandler]

\* getAgent(agentId) after its validation:  await database.getDatabase() ,
\* which with a db returns it, so that getAgent goes on to  await db.get() ,
\* and with none awaits initialize().
GetAgent(body) ==
  /\ \E h \in Handlers :
       IF db # "null"
       THEN /\ Suspended(h, "synthesize", "get", body)
            /\ UNCHANGED databaseVars
       ELSE /\ Suspended(h, "synthesize", "getDatabase", body)
            /\ initialize
            /\ UNCHANGED <<db, handle, getters>>
  /\ ReturnsNothing
  /\ UNCHANGED <<queueVars, calls, agents>>

\* getAgent(agentId): an invalid id is thrown on to the route, which
\* responds 500 with the message.
GetAgentValidated(body, validation) ==
  IF validation.threw
  THEN Responds("synthesize", body, 500, validation.message, <<>>)
         /\ UNCHANGED serviceVars
  ELSE IF ~validation.isValid
  THEN Responds("synthesize", body, 500, validation.errors[1], <<>>)
         /\ UNCHANGED serviceVars
  ELSE GetAgent(body)

\* POST /synthesize up to the await of getAgent.
SynthesizeValidated(body, validation) ==
  IF validation.threw
  THEN Responds("synthesize", body, 500, validation.message, <<>>)
         /\ UNCHANGED serviceVars
  ELSE IF Rejects(validation)
  THEN Responds("synthesize", body, 400, "Validation failed", validation.errors)
         /\ UNCHANGED serviceVars
  ELSE GetAgentValidated(body, validateAgentId(validation.sanitized.agentId))

Synthesize(body) ==
  /\ Idle
  /\ SynthesizeValidated(body, validateTextToSpeechRequest(body))

\* getDatabase resumes after  await this.initialize() : the rejection is
\* thrown on; otherwise it returns this.db as it is now and getAgent issues
\* db.get on it (a TypeError if close() has set it to null meanwhile).
GetDatabaseSettled(h) ==
  /\ handlers[h].pc = "getDatabase"
  /\ initPromise \in {"resolved", "rejected"}
  /\ IF initPromise = "rejected"
     THEN Finishes(h, 500, "SQLITE_ERROR: database failure")
     ELSE IF db = "null"
     THEN Finishes(h, 500, "Cannot read properties of null (reading 'get')")
     ELSE /\ handlers' = [handlers EXCEPT ![h].pc = "get"]
          /\ ReturnsNothing
          /\ UNCHANGED queueVars
  /\ UNCHANGED <<calls, agents, databaseVars>>

\* generateSpeech(text, agent.agent.voiceId, mergedSettings) of the route.
SynthesizeSpeech(h, body, settings, agentSettings, id) ==
  /\ nextTask <= MaxCalls
  /\ Enqueue(id)
  /\ handlers' = [handlers EXCEPT ![h] = NoHandler]
  /\ returned' = Response("synthesize", body, 0, "", <<>>,
                          validateVoiceSettings(
                            Spread(agentSettings, PropertiesOf(settings))))

\* getAgent resumes after  await db.get() : the statement failed, there is
\* no such row, or the row is returned with its stored settings and the
\* route calls generateSpeech.
GetSettled(h) ==
  /\ handlers[h].pc = "get"
  /\ \/ Finishes(h, 500, "SQLITE_ERROR: database failure")
     \/ Finishes(h, 500, "Agent not found")
     \/ \E agentSettings \in AgentSettings : \E id \in RequestIds :
          SynthesizeSpeech(h, handlers[h].arg,
                           validateTextToSpeechRequest(handlers[h].arg).sanitized.settings,
                           agentSettings, id)
  /\ UNCHANGED <<calls, agents, databaseVars>>

\* voiceProcessor.createVoiceClone(name, description, audioResult?.path) of
\* createAgent.
CreateVoiceClone(data, settings, id) ==
  /\ nextTask <= MaxCalls
  /\ Enqueue(id)
  /\ returned' = Response("createAgent", data, 0, "", <<>>, settings)

\* agentService.createAgent up to the await of processUpload or, with no
\* upload, of createVoiceClone.
CreateAgentValidated(data, validation) ==
  IF validation.threw
  THEN Responds("createAgent", data, 500, validation.message, <<>>)
         /\ UNCHANGED serviceVars
  ELSE IF Rejects(validation)
  THEN Responds("createAgent", data, 500, "Validation failed", validation.errors)
         /\ UNCHANGED serviceVars
  ELSE IF data.voiceFile # NoFile
  THEN /\ \E h \in Handlers : Suspended(h, "createAgent", "processUpload", data)
       /\ ReturnsNothing
       /\ UNCHANGED <<queueVars, calls, agents, databaseVars>>
  ELSE /\ \E id \in RequestIds :
            CreateVoiceClone(data, validation.sanitized.settings, id)
       /\ UNCHANGED serviceVars

CreateAgent(data) ==
  /\ Idle
  /\ CreateAgentValidated(data, validateVoiceCloneRequest(data))

\* createAgent resumes after  await audioManager.processUpload(audioFile) :
\* the upload failed and the error is thrown on, or createVoiceClone is
\* called.
ProcessUploadSettled(h) ==
  /\ handlers[h].pc = "processUpload"
  /\ \/ Finishes(h, 500, "ENOENT: no such file or directory")
     \/ /\ \E id \in RequestIds :
             CreateVoiceClone(handlers[h].arg,
                              validateVoiceCloneRequest(handlers[h].arg).sanitized.settings,
                              id)
        /\ handlers' = [handlers EXCEPT ![h] = NoHandler]
  /\ UNCHANGED <<calls, agents, databaseVars>>

RouteNext ==
  \/ Idle /\ \E body \in SynthesizeBodies : Synthesize(body)
  \/ Idle /\ \E data \in CreateAgentData : CreateAgent(data)
  \/ Idle /\ nextTask <= MaxCalls /\ \E id \in RequestIds : QueueRequest(id)
  \/ Idle /\ InitializeAdvances
  \/ Idle /\ InitializeFails
  \/ Idle /\ \E h \in Handlers : GetDatabaseSettled(h)
  \/ Idle /\ \E h \in Handlers : GetSettled(h)
  \/ Idle /\ \E h \in Handlers : ProcessUploadSettled(h)
  \/ TakeResult

RouteSpec == SpeechInit /\ [][RouteNext]_vars

(***************************************************************************)
(* AgentService.createAgent and deleteAgent of src/services/agentService.js *)
(* with the dispatcher running their provider calls and the                *)
(* DatabaseManager opening the store.  A step is what runs between two     *)
(* awaits.  The store is the set of the ids of the rows of the agents      *)
(* table; a statement takes effect in the step in which its promise        *)
(* settles.                                                                *)
(***************************************************************************)
\* Bound of the model: the number of provider calls the services make.
MaxServiceCalls == 2

\* Ids of agents (`agent_<name>_<random>`).
AgentIds == { <<"a", "g", "_", "a">>, <<"a", "g", "_", "b">> }

\* The ids deleteAgent is called with: those of agents, and none.
DeleteAgentInputs == { JsString(agent) : agent \in AgentIds } \cup {JsUndefined}

\* The agent data createAgent is called with, with the upload: valid with
\* and without an upload, and an empty name.
AgentData ==
  { [name |-> nm, description |-> JsString(<<"d">>), settings |-> EmptyObject,
     voiceFile |-> f] :
      nm \in {JsString(<<"A", "l">>)},
      f \in {NoFile, [originalname |-> <<"v", ".", "m", "p", "3">>, size |-> 2048]} }
    \cup { [name |-> JsString(<<>>), description |-> JsString(<<"d">>),
            settings |-> EmptyObject,
            voiceFile |-> [originalname |-> <<"v", ".", "m", "p", "3">>, size |-> 2048]] }

\* errors.join(', '), as the parts of the string.
RECURSIVE Joined(_)
Joined(errors) ==
  IF Len(errors) <= 1 THEN errors
  ELSE <<errors[1], ", ">> \o Joined(Tail(errors))

\* The call of an operation made by a service for an agent.  stage is where
\* the service is: awaiting the operation ("provider"), awaiting
\* database.getDatabase() ("getDatabase"), awaiting db.run ("run"), or
\* returned or thrown ("finished").
ServiceCall(op, service, agent) ==
  [op |-> op, failure |-> NoFailure, done |-> FALSE,
   service |-> service, agent |-> agent, stage |-> "provider"]

\* What a service call hands back: its return, or the error it throws.
ServiceResult(service, agent, task, threw, message) ==
  [op |-> service, agent |-> agent, task |-> task, threw |-> threw,
   message |-> message]

\* voiceProcessor.createVoiceClone(name, description, audioResult?.path) of
\* createAgent, up to its await; agent is the id generateAgentId gave.
CreateAgentCalled(agent, id) ==
  /\ nextTask <= MaxServiceCalls
  /\ Enqueue(id)
  /\ calls' = [calls EXCEPT ![nextTask] =
                 ServiceCall("createVoiceClone", "createAgent", agent)]
  /\ UNCHANGED <<agents, databaseVars>>
  /\ ReturnsNothing

\* createAgent(agentData, audioFile), the turn of the call: the validation
\* throws, or its errors are thrown as one message; otherwise the id of the
\* agent is generated and, with an upload, createAgent awaits
\* audioManager.processUpload(audioFile), and with none it calls
\* createVoiceClone.
CreateAgentTurn(data, validation) ==
  IF validation.threw
  THEN /\ returned' = ServiceResult("createAgent", <<>>, 0, TRUE,
                                    <<validation.message>>)
       /\ UNCHANGED <<queueVars, serviceVars>>
  ELSE IF ~validation.isValid
  THEN /\ returned' = ServiceResult("createAgent", <<>>, 0, TRUE,
                                    <<"Validation failed: ">>
                                      \o Joined(validation.errors))
       /\ UNCHANGED <<queueVars, serviceVars>>
  ELSE IF data.voiceFile # NoFile
  THEN /\ \E h \in Handlers : \E agent \in AgentIds :
            Suspended(h, "createAgent", "processUpload", agent)
       /\ ReturnsNothing
       /\ UNCHANGED <<queueVars, calls, agents, databaseVars>>
  ELSE /\ \E agent \in AgentIds : \E id \in RequestIds :
            CreateAgentCalled(agent, id)
       /\ UNCHANGED handlers

CreateAgentService(data) ==
  CreateAgentTurn(data, validateVoiceCloneRequest(data))

\* createAgent resumes after  await audioManager.processUpload(audioFile) :
\* the upload failed (the temporary file is gone) and the catch block
\* rethrows, or createVoiceClone is called.
UploadSettled(h) ==
  /\ handlers[h].op = "createAgent"
  /\ handlers[h].pc = "processUpload"
  /\ \/ /\ returned' = ServiceResult("createAgent", <<>>, 0, TRUE,
              <<"ENOENT: no such file or directory, rename '<path>' -> '<path>'">>)
        /\ handlers' = [handlers EXCEPT ![h] = NoHandler]
        /\ UNCHANGED <<queueVars, calls, agents, databaseVars>>
     \/ /\ \E id \in RequestIds : CreateAgentCalled(handlers[h].arg, id)
        /\ handlers' = [handlers EXCEPT ![h] = NoHandler]

\* The suspended call of the service throws.
Throws(h, message) ==
  /\ returned' = ServiceResult(handlers[h].op, handlers[h].arg, 0, TRUE, message)
  /\ handlers' = [handlers EXCEPT ![h] = NoHandler]

\* deleteAgent(agentId): validateAgentId, then getAgent(agentId), which
\* validates the id again and awaits database.getDatabase(): with a db
\* getDatabase returns it, so that getAgent goes on to  await db.get() ,
\* and with none it awaits initialize().
DeleteAgentValidated(agentId, validation) ==
  IF validation.threw
  THEN /\ returned' = ServiceResult("deleteAgent", <<>>, 0, TRUE,
                                    <<validation.message>>)
       /\ UNCHANGED <<queueVars, serviceVars>>
  ELSE IF ~validation.isValid
  THEN /\ returned' = ServiceResult("deleteAgent", <<>>, 0, TRUE,
                                    <<validation.errors[1]>>)
       /\ UNCHANGED <<queueVars, serviceVars>>
  ELSE /\ \E h \in Handlers :
            IF db # "null"
            THEN /\ Suspended(h, "deleteAgent", "get", agentId.s)
                 /\ UNCHANGED databaseVars
            ELSE /\ Suspended(h, "deleteAgent", "getDatabase", agentId.s)
                 /\ initialize
                 /\ UNCHANGED <<db, handle, getters>>
       /\ ReturnsNothing
       /\ UNCHANGED <<queueVars, calls, agents>>

DeleteAgent(agentId) == DeleteAgentValidated(agentId, validateAgentId(agentId))

\* getAgent of deleteAgent resumes after  await database.getDatabase() :
\* the rejection of initialize() is thrown on; otherwise getDatabase
\* returns this.db as it is now and getAgent issues db.get on it (a
\* TypeError if close() has set it to null meanwhile).
LookupGetDatabaseSettled(h) ==
  /\ handlers[h].op = "deleteAgent"
  /\ handlers[h].pc = "getDatabase"
  /\ initPromise \in {"resolved", "rejected"}
  /\ IF initPromise = "rejected"
     THEN Throws(h, <<"SQLITE_ERROR: database failure">>)
     ELSE IF db = "null"
     THEN Throws(h, <<"Cannot read properties of null (reading 'get')">>)
     ELSE /\ handlers' = [handlers EXCEPT ![h].pc = "get"]
          /\ ReturnsNothing
  /\ UNCHANGED <<queueVars, calls, agents, databaseVars>>

\* getAgent of deleteAgent resumes after  await db.get() : the statement
\* failed, or there is no such row, and the error is thrown on; or the row
\* is returned and deleteAgent calls voiceProcessor.deleteVoice(...), up
\* to its await.
LookupGetSettled(h) ==
  /\ handlers[h].op = "deleteAgent"
  /\ handlers[h].pc = "get"
  /\ \/ /\ Throws(h, <<"SQLITE_ERROR: database failure">>)
        /\ UNCHANGED <<queueVars, calls>>
     \/ /\ handlers[h].arg \notin agents
        /\ Throws(h, <<"Agent not found">>)
        /\ UNCHANGED <<queueVars, calls>>
     \/ /\ handlers[h].arg \in agents
        /\ nextTask <= MaxServiceCalls
        /\ \E id \in RequestIds : Enqueue(id)
        /\ calls' = [calls EXCEPT ![nextTask] =
                       ServiceCall("deleteVoice", "deleteAgent", handlers[h].arg)]
        /\ handlers' = [handlers EXCEPT ![h] = NoHandler]
        /\ ReturnsNothing
  /\ UNCHANGED <<agents, databaseVars>>

\* Variant: the service goes on to the store whatever the outcome of the
\* provider call.
ResumesToStore(outcome) == "store"

\* Where the service resumes after the await of the operation: a rejection
\* jumps to the catch block, which rethrows; otherwise the statements after
\* the await run.
ResumesTo(outcome) == IF outcome = "rejected" THEN "catch" ELSE "store"

\* The call of the service ends.
ServiceEnds(t, threw, message) ==
  /\ calls' = [calls EXCEPT ![t].stage = "finished"]
  /\ returned' = ServiceResult(calls[t].service, calls[t].agent, t, threw,
                               message)

\* The service resumes after the await of the operation: the catch block
\* rethrows what the operation threw, or the service awaits
\* database.getDatabase(), which with a db returns it, so that the service
\* goes on to  await db.run(...) , and with none awaits initialize().
ServiceSettles(t) ==
  /\ calls[t].done
  /\ calls[t].stage = "provider"
  /\ IF ResumesTo(future[t]) = "catch"
     THEN /\ ServiceEnds(t, TRUE, Thrown(calls[t].failure))
          /\ UNCHANGED databaseVars
     ELSE IF db # "null"
     THEN /\ calls' = [calls EXCEPT ![t].stage = "run"]
          /\ ReturnsNothing
          /\ UNCHANGED databaseVars
     ELSE /\ calls' = [calls EXCEPT ![t].stage = "getDatabase"]
          /\ initialize
          /\ ReturnsNothing
          /\ UNCHANGED <<db, handle, getters>>
  /\ UNCHANGED <<queueVars, agents, handlers>>

\* The service resumes after  await database.getDatabase() : the rejection
\* of initialize() is thrown on; otherwise getDatabase returns this.db as
\* it is now and the service issues db.run on it (a TypeError if close()
\* has set it to null meanwhile).
StoreGetDatabaseSettled(t) ==
  /\ calls[t].op # "none"
  /\ calls[t].stage = "getDatabase"
  /\ initPromise \in {"resolved", "rejected"}
  /\ IF initPromise = "rejected"
     THEN ServiceEnds(t, TRUE, <<"SQLITE_ERROR: database failure">>)
     ELSE IF db = "null"
     THEN ServiceEnds(t, TRUE, <<"Cannot read properties of null (reading 'run')">>)
     ELSE /\ calls' = [calls EXCEPT ![t].stage = "run"]
          /\ ReturnsNothing
  /\ UNCHANGED <<queueVars, agents, handlers, databaseVars>>

\* The store after the statement of the service: the INSERT adds the row
\* of the agent, the DELETE removes it.
StoreAfter(store, call) ==
  IF call.service = "createAgent"
  THEN store \cup {call.agent}
  ELSE store \ {call.agent}

\* The message of the error the statement on the store ends with, <<>> if
\* none: an INSERT of an id the table has violates the primary key; a
\* DELETE that changes no row makes deleteAgent throw.
StoreError(store, call) ==
  IF call.service = "createAgent" /\ call.agent \in store
  THEN <<"SQLITE_CONSTRAINT: UNIQUE constraint failed: agents.id">>
  ELSE IF call.service = "deleteAgent" /\ call.agent \notin store
  THEN <<"Agent not found in database">>
  ELSE <<>>

\* The service resumes after  await db.run(...) : the statement has run on
\* the store, and the service returns, or throws the error of the statement.
RunSettled(t) ==
  /\ calls[t].op # "none"
  /\ calls[t].stage = "run"
  /\ agents' = StoreAfter(agents, calls[t])
  /\ ServiceEnds(t, StoreError(agents, calls[t]) # <<>>,
                 StoreError(agents, calls[t]))
  /\ UNCHANGED <<queueVars, handlers, databaseVars>>

\* db.run rejects for a reason of the store (the database is locked): the
\* catch block rethrows and the table is as it was.
StoreFails(t) ==
  /\ calls[t].op # "none"
  /\ calls[t].stage = "run"
  /\ ServiceEnds(t, TRUE, <<"SQLITE_BUSY: database is locked">>)
  /\ UNCHANGED <<agents, handlers, queueVars, databaseVars>>

AgentNext ==
  \/ \E data \in AgentData : CreateAgentService(data)
  \/ \E h \in Handlers : UploadSettled(h)
  \/ \E agentId \in DeleteAgentInputs : DeleteAgent(agentId)
  \/ \E h \in Handlers : LookupGetDatabaseSettled(h)
  \/ \E h \in Handlers : LookupGetSettled(h)
  \/ InitializeAdvances
  \/ InitializeFails
  \/ \E t \in Tasks : ExecuteSettles(t, "fulfilled")
  \/ \E t \in Tasks : \E error \in FailuresOf(calls[t].op) : ExecuteFailsWith(t, error)
  \/ \E t \in Tasks : Continuation(t)
  \/ TimerFires
  \/ \E t \in Tasks : OperationSettles(t)
  \/ \E t \in Tasks : ServiceSettles(t)
  \/ \E t \in Tasks : StoreGetDatabaseSettled(t)
  \/ \E t \in Tasks : RunSettled(t)
  \/ \E t \in Tasks : StoreFails(t)

AgentSpec == SpeechInit /\ [][AgentNext]_vars

(***************************************************************************)
(* Derived sets used by the properties.                                    *)
(***************************************************************************)
Range(f) == { f[x] : x \in DOMAIN f }

Pending == { requestQueue[i].task : i \in DOMAIN requestQueue }

Active == Range(activeRequests)

Dispatched == Range(dispatchOrder)

Enqueued == 1..(nextTask - 1)

Settled(t) == future[t] \in {"resolved", "rejected"}

InFlight == { t \in Tasks : awaiting[t] # NoId }

(***************************************************************************)
(* Properties of the dispatcher.                                           *)
(***************************************************************************)

\* C1: in every reachable state the number of entries of activeRequests is
\* at most maxConcurrent.
C1_ActiveWithinMax == MapSize(activeRequests) <= maxConcurrent

\* The part of C1 that holds whatever the configuration: the cap is never
\* exceeded by a dispatch (the size stays within a non-negative cap).
C1_ActiveWithinNonNegativeMax ==
  maxConcurrent >= 0 => MapSize(activeRequests) <= maxConcurrent

\* C2: requests leave the pending queue in enqueue order: execute is
\* invoked in the order of the queueRequest calls, every request still
\* pending is younger than every request dispatched so far, and the pending
\* queue itself is in enqueue order.
C2_FifoDispatch ==
  /\ \A i, j \in DOMAIN dispatchOrder :
       i < j => dispatchOrder[i] < dispatchOrder[j]
  /\ \A d \in Dispatched : \A p \in Pending : d < p
  /\ \A i, j \in DOMAIN requestQueue :
       i < j => requestQueue[i].task < requestQueue[j].task

C2_Witness ==
  /\ Len(dispatchOrder) >= 3
  /\ Len(requestQueue) >= 2
  /\ timers >= 1

\* C3: with maxConcurrent >= 1, every request accepted by queueRequest is
\* eventually dispatched (its execute invoked once) and its future settled.
C3_NoTaskLost ==
  \A t \in Tasks :
    (future[t] = "pending" /\ maxConcurrent >= 1)
      ~> (Settled(t) /\ execCount[t] = 1 /\ t \in Dispatched)

C3_Witness ==
  /\ maxConcurrent = 2
  /\ nextTask > MaxTasks
  /\ Len(dispatchOrder) = MaxTasks
  /\ \A t \in Tasks : future[t] = "resolved"

C5_FailureStep ==
  \A t \in Tasks :
    (future[t] = "pending" /\ future'[t] = "rejected")
      => /\ execState[t] = "failed"
         /\ \A u \in Tasks \ {t} : future'[u] = future[u]
         /\ activeRequests' = MapDelete(activeRequests, awaiting[t])
         /\ awaiting' = [awaiting EXCEPT ![t] = NoId]
         /\ timers' = timers + 1
         /\ requestQueue' = requestQueue
         /\ execState' = execState

\* C5: a step in which a failed execute rejects its future changes no other
\* future, releases the slot exactly as a success does (the entry of its id
\* is deleted, one timer is scheduled) and leaves the pending queue alone;
\* and a future is only ever rejected by the failure of its own execute.
C5_FailureIsolated == [][C5_FailureStep]_vars

C5_Witness ==
  \E a, b, c \in Tasks :
    /\ a < b /\ b < c
    /\ future[a] = "rejected"
    /\ future[b] = "resolved"
    /\ future[c] = "resolved"
    /\ maxConcurrent = 1

\* C6: the future of a request is settled by exactly one resolve/reject
\* call, made only once its execute has settled, and with execute's
\* outcome; once the continuation of a dispatched request has run its
\* future is settled.
C6_FutureMatchesExecute ==
  \A t \in Tasks :
    /\ settleCount[t] <= 1
    /\ Settled(t) <=> settleCount[t] = 1
    /\ future[t] = "resolved" => execState[t] = "fulfilled"
    /\ future[t] = "rejected" => execState[t] = "failed"
    /\ (execCount[t] >= 1 /\ awaiting[t] = NoId) => Settled(t)
    /\ future[t] = "none" <=> t >= nextTask

C6_Witness ==
  \E a, b \in Tasks :
    /\ future[a] = "resolved" /\ execState[a] = "fulfilled"
    /\ future[b] = "rejected" /\ execState[b] = "failed"
    /\ settleCount[a] = 1 /\ settleCount[b] = 1

\* What a queueRequest step does to the request it accepts.
C7_AcceptStep ==
  nextTask' # nextTask
    => /\ nextTask' = nextTask + 1
       /\ nextTask \in Pending' \cup Active'
       /\ future'[nextTask] = "pending"
       /\ \A u \in Tasks \ {nextTask} : future'[u] = future[u]

\* C7: queueRequest is never refused (it is enabled whatever the active
\* count and the queue length) and right after the call the new request is
\* pending or active and its future is pending.
C7_AlwaysAccepts ==
  /\ [](nextTask <= MaxTasks => ENABLED (\E id \in RequestIds : QueueRequest(id)))
  /\ [][C7_AcceptStep]_vars

C7_Witness ==
  /\ Len(requestQueue) >= 3
  /\ MapSize(activeRequests) = maxConcurrent
  /\ maxConcurrent >= 1
  /\ \A i \in DOMAIN requestQueue : future[requestQueue[i].task] = "pending"

\* C8: execute is invoked once when a request is dispatched and never
\* again: no request is executed twice, and a request whose future is
\* settled (a failed one in particular) is neither pending nor running.
C8_ExecutedOnce ==
  \A t \in Tasks :
    /\ execCount[t] <= 1
    /\ execCount[t] = 1 <=> t \in Dispatched
    /\ Settled(t) => /\ t \notin Pending
                     /\ t \notin InFlight
                     /\ execState[t] # "running"
    /\ t \in Pending => execCount[t] = 0

C8_Witness ==
  \E a, b \in Tasks :
    /\ a < b
    /\ future[a] = "rejected"
    /\ execCount[a] = 1
    /\ Settled(b)
    /\ timers = 0

\* What a step that ends the processQueue invocation of request t does.
C9_ReleaseStep ==
  /\ \A t \in Tasks :
       (awaiting[t] # NoId /\ awaiting'[t] = NoId)
         => /\ t \notin Active'
            /\ awaiting[t] \notin DOMAIN activeRequests'
            /\ timers' = timers + 1
  /\ (\E id \in DOMAIN activeRequests : id \notin DOMAIN activeRequests')
       => \E t \in Tasks : awaiting[t] # NoId /\ awaiting'[t] = NoId
  /\ timers' > timers
       => \E t \in Tasks : awaiting[t] # NoId /\ awaiting'[t] = NoId

\* C9: every step in which the continuation of a settled execute runs,
\* success or failure, leaves the request out of the active set and
\* schedules exactly one processQueue call; entries leave the active set
\* and timers are scheduled in no other step.
C9_ReleaseSchedules == [][C9_ReleaseStep]_vars

C9_Witness ==
  \E a, b \in Tasks :
    /\ future[a] = "resolved"
    /\ future[b] = "rejected"
    /\ timers = 2
    /\ Active = {}
    /\ requestQueue # <<>>

\* What a step that settles a future, and a step that dispatches, may do.
C10_DeferredStep ==
  /\ (\E t \in Tasks : future[t] = "pending" /\ Settled(t)')
       => /\ requestQueue' = requestQueue
          /\ dispatchOrder' = dispatchOrder
          /\ execCount' = execCount
  /\ dispatchOrder' # dispatchOrder
       => (nextTask' = nextTask + 1 \/ timers' = timers - 1)

\* C10: a step in which a request's future is settled dispatches nothing:
\* the pending queue and the executions started are unchanged; execute is
\* invoked only inside a queueRequest call or a timer callback.
C10_RedispatchDeferred == [][C10_DeferredStep]_vars

C10_Witness ==
  /\ \E t \in Tasks : Settled(t)
  /\ requestQueue # <<>>
  /\ MapSize(activeRequests) < maxConcurrent
  /\ timers >= 1
  /\ Cardinality(InFlight) < maxConcurrent

\* C11: in every state the active set (the values of activeRequests) is
\* exactly the set of tasks whose execute has been started and from whose
\* await processQueue has not yet resumed: a task holds its slot for the
\* whole of its execution.
C11_ActiveIsExecuting == Active = InFlight

\* The membership of a task: how many of the pending queue, the active set
\* and the settled tasks it belongs to.
Membership(t) ==
  (IF t \in Pending THEN 1 ELSE 0) + (IF t \in Active THEN 1 ELSE 0)
    + (IF Settled(t) THEN 1 ELSE 0)

\* C12: between two turns every enqueued task is in exactly one of the
\* pending queue, the active set and the settled tasks.
C12_ExactlyOnePlace == \A t \in Enqueued : Membership(t) = 1

C13_StatusStep ==
  returned'.op = "getQueueStatus"
    => /\ returned'.value.activeRequests = MapSize(activeRequests)
       /\ returned'.value.queuedRequests = Len(requestQueue)
       /\ returned'.value.maxConcurrent = maxConcurrent
       /\ UNCHANGED dispatcherVars

\* C13: getQueueStatus returns the size of the active set, the length of the
\* pending queue and maxConcurrent as they are when it is called and changes
\* none of them (nor any other field of the dispatcher); called before any
\* queueRequest, it returns 0 for both counts.
C13_StatusReadOnly ==
  /\ [][C13_StatusStep]_vars
  /\ []((returned.op = "getQueueStatus" /\ nextTask = 1)
          => (returned.value.activeRequests = 0 /\ returned.value.queuedRequests = 0))

C13_Witness ==
  /\ returned.op = "getQueueStatus"
  /\ returned.value.activeRequests = 2
  /\ returned.value.queuedRequests = 2
  /\ returned.value.maxConcurrent = 2
  /\ timers >= 1

\* A number within [0, 1].
InUnitRange(v) ==
  IsFinite(v) /\ ~Below(v, JsNumber(0)) /\ ~Below(JsNumber(10), v)

\* C14: the voice_settings of every generateSpeech call have stability,
\* similarityBoost and style within [0, 1] and a boolean speakerBoost,
\* whatever the settings of the caller.
C14_ForwardedWithinRange ==
  returned.op = "generateSpeech"
    => /\ \A k \in NumericKeys : InUnitRange(returned.value[k])
       /\ returned.value.speakerBoost.t = "boolean"

\* The baseline of the settings: stability 0.5, similarityBoost 0.5,
\* style 0.0, speakerBoost true.
Baseline ==
  [stability |-> JsNumber(5), similarityBoost |-> JsNumber(5),
   style |-> JsNumber(0), speakerBoost |-> JsBoolean(TRUE)]

\* C15: with no DEFAULT_* variable set, the normalizer gives every field the
\* caller left out its baseline value, so the empty object is normalized to
\* the baseline.
C15_MissingGetBaseline ==
  (returned.op = "validateVoiceSettings" /\ returned.pass = 1
     /\ voiceSettings = initVoiceSettings(EnvUnset))
    => \A k \in SettingsKeys :
         returned.arg[k] = Absent => returned.value[k] = Baseline[k]

\* C16: a numeric field holding the number x is normalized to 0 when x < 0,
\* to 1 when x > 1 and to x when 0 <= x <= 1: every call on a number
\* returns a value.
C16_ClampNumbers ==
  (returned.op = "validateVoiceSettings" /\ returned.pass = 1)
    => \A k \in NumericKeys :
         LET x == returned.arg[k]
             y == returned.value[k]
         IN  (x.t = "number" /\ ~IsNaN(x))
               => /\ Below(x, JsNumber(0)) => y = JsNumber(0)
                  /\ Below(JsNumber(10), x) => y = JsNumber(10)
                  /\ (~Below(x, JsNumber(0)) /\ ~Below(JsNumber(10), x)) => y = x

C16_Witness ==
  /\ returned.op = "validateVoiceSettings"
  /\ returned.arg.stability = JsNumber(15) /\ returned.value.stability = JsNumber(10)
  /\ returned.arg.similarityBoost = JsNumber(-2)
  /\ returned.value.similarityBoost = JsNumber(0)
  /\ returned.arg.style = JsNumber(5) /\ returned.value.style = JsNumber(5)

\* C17: normalizing a normalized object gives the same object, field by
\* field (a field that is NaN stays NaN).
C17_Idempotent ==
  (returned.op = "validateVoiceSettings" /\ returned.pass = 2)
    => \A k \in SettingsKeys : returned.value[k] = returned.arg[k]

C17_Witness ==
  /\ returned.op = "validateVoiceSettings" /\ returned.pass = 2
  /\ returned.value.stability = JsNumber(10)
  /\ returned.value.similarityBoost = JsNumber(0)
  /\ returned.value.style = JsNumber(7)
  /\ returned.value.speakerBoost = JsBoolean(TRUE)
  /\ voiceSettings.default.speakerBoost = JsBoolean(FALSE)

\* The settings as the validator reads them: the baseline in place of a
\* field that is missing or undefined.
Defaulted(settings) ==
  [k \in SettingsKeys |-> Destructure(settings, k, Baseline[k])]

\* C18: the validator reports isValid exactly when, with the missing fields
\* defaulted, stability, similarityBoost and style are numbers within [0, 1]
\* and speakerBoost is a boolean; otherwise it reports at least one error.
C18_ValidExactlyInRange ==
  returned.op = "validators.validateVoiceSettings"
    => LET d == Defaulted(returned.arg)
       IN  /\ returned.value.isValid
                <=> /\ \A k \in NumericKeys : InUnitRange(d[k])
                    /\ d.speakerBoost.t = "boolean"
           /\ ~returned.value.isValid => Len(returned.value.errors) >= 1

\* The part of C18 that holds: the same, for the settings objects with no
\* NaN field.
C18_ValidExactlyInRangeNoNaN ==
  (returned.op = "validators.validateVoiceSettings"
     /\ \A k \in NumericKeys : ~IsNaN(returned.arg[k]))
    => LET d == Defaulted(returned.arg)
       IN  /\ returned.value.isValid
                <=> /\ \A k \in NumericKeys : InUnitRange(d[k])
                    /\ d.speakerBoost.t = "boolean"
           /\ ~returned.value.isValid => Len(returned.value.errors) >= 1

\* The validation result of the request a handler was called with.
ValidationOf(response) ==
  IF response.op = "synthesize"
  THEN validateTextToSpeechRequest(response.arg)
  ELSE validateVoiceCloneRequest(response.arg)

C19_Rejected(validation) ==
  /\ (~validation.threw /\ ~validation.isValid)
       => /\ returned'.error = "Validation failed"
          /\ returned'.details = validation.errors
          /\ returned'.status \in {400, 500}
          /\ UNCHANGED dispatcherVars
  /\ nextTask' # nextTask => validation.isValid

C19_RejectStep ==
  returned'.op \in {"synthesize", "createAgent"}
    => C19_Rejected(ValidationOf(returned'))

\* C19: a synthesize request or createAgent call whose validation reports
\* isValid = false gets the validation error back and leaves the dispatcher
\* as it was: nothing is enqueued and no execute function is invoked; only
\* valid requests are enqueued.
C19_InvalidNeverEnqueued == [][C19_RejectStep]_vars

C19_Witness ==
  /\ returned.op = "synthesize"
  /\ returned.error = "Validation failed"
  /\ Len(returned.details) >= 2
  /\ MapSize(activeRequests) = 2
  /\ requestQueue # <<>>

\* C20: the translation of an error with a captured status is a fixed
\* lookup: 401, 402, 429 and 500 give their fixed messages, 422 gives
\* "Invalid request: " followed by the provider detail, and every other
\* status gives "ElevenLabs API error: " followed by the provider detail.
C20_FixedLookup ==
  (returned.op = "handleElevenLabsError" /\ returned.arg.hasStatus)
    => LET error == returned.arg
           detailed == error.hasDetail /\ error.detail # ""
       IN  /\ error.status = 401 => returned.value = <<"Invalid ElevenLabs API key">>
           /\ error.status = 402 => returned.value = <<"ElevenLabs quota exceeded">>
           /\ error.status = 429 => returned.value = <<"ElevenLabs rate limit exceeded">>
           /\ error.status = 500 => returned.value = <<"ElevenLabs server error">>
           /\ error.status = 422
                => /\ returned.value[1] = "Invalid request: "
                   /\ detailed => returned.value[2] = error.detail
           /\ error.status \notin {401, 402, 422, 429, 500}
                => /\ returned.value[1] = "ElevenLabs API error: "
                   /\ detailed => returned.value[2] = error.detail

C20_Witness ==
  /\ returned.op = "handleElevenLabsError"
  /\ returned.arg.hasStatus /\ returned.arg.status = 999
  /\ returned.arg.detail = "voice_not_found"
  /\ returned.value = <<"ElevenLabs API error: ", "voice_not_found">>

\* C21: the translation of a failure with no response object (no captured
\* status) is the generic message, "ElevenLabs API error: " followed by the
\* raw message of the failure.
C21_NoStatusIsGeneric ==
  (returned.op = "handleElevenLabsError" /\ ~returned.arg.hasResponse)
    => returned.value = <<"ElevenLabs API error: ", returned.arg.message>>

C21_Witness ==
  /\ returned.op = "handleElevenLabsError"
  /\ ~returned.arg.hasResponse
  /\ returned.arg.message = "socket hang up"
  /\ returned.value = <<"ElevenLabs API error: ", "socket hang up">>

\* C22: when the execute function of an operation fails with an error that
\* is not the provider's (a file-system failure), the caller of the
\* operation receives an error with the original message.
C22_InfrastructureAsIs ==
  (returned.op \in Operations /\ returned.threw
     /\ returned.failure \in InfrastructureErrors)
    => returned.message = <<returned.failure.message>>

\* What one processQueue call does, made on the pending queue q with t
\* timers outstanding.
C23_Call(q, t) ==
  IF MapSize(activeRequests) >= maxConcurrent \/ Len(q) = 0
  THEN /\ requestQueue' = q
       /\ timers' = t
       /\ UNCHANGED <<activeRequests, awaiting, execState, execCount,
                      dispatchOrder>>
  ELSE /\ requestQueue' = Tail(q)
       /\ timers' = t
       /\ DOMAIN activeRequests' = DOMAIN activeRequests \cup {Head(q).id}
       /\ activeRequests'[Head(q).id] = Head(q).task
       /\ \A id \in DOMAIN activeRequests \ {Head(q).id} :
            activeRequests'[id] = activeRequests[id]
       /\ execCount' = [execCount EXCEPT ![Head(q).task] = @ + 1]
       /\ execState' = [execState EXCEPT ![Head(q).task] = "running"]
       /\ dispatchOrder' = Append(dispatchOrder, Head(q).task)

C23_ProcessQueueStep ==
  /\ timers' = timers - 1 => C23_Call(requestQueue, timers - 1)
  /\ nextTask' # nextTask
       => \E id \in RequestIds :
            C23_Call(Append(requestQueue, [id |-> id, task |-> nextTask]), timers)

\* C23: a processQueue call (from a timer, or from queueRequest after its
\* push) made when the active count is at least maxConcurrent or the pending
\* queue is empty changes nothing: no request moves, no execute is invoked,
\* no timer is scheduled.  Otherwise it moves exactly the head of the
\* pending queue into the active set and invokes its execute, once.
C23_ProcessQueueOnce == [][C23_ProcessQueueStep]_vars

C23_Witness ==
  /\ maxConcurrent = 2
  /\ MapSize(activeRequests) = 2
  /\ Len(requestQueue) >= 1
  /\ Len(dispatchOrder) = 3
  /\ timers = 0
  /\ Cardinality({t \in Tasks : Settled(t)}) = 1

\* C24: completion order is free of submission order.  The continuation
\* that settles the future of a request can run as soon as the execute of
\* that request has settled, whatever the state of the requests enqueued
\* before it, and a future is settled only after its own execute has; so
\* with maxConcurrent >= 2 a request enqueued later can be settled while an
\* earlier one is still running (the witness).
C24_SettlesWithoutWaiting ==
  \A t \in Tasks :
    /\ (awaiting[t] # NoId /\ execState[t] \in {"fulfilled", "failed"})
         => ENABLED Continuation(t)
    /\ Settled(t) => execState[t] \in {"fulfilled", "failed"}

C24_Witness ==
  \E a, b \in Tasks :
    /\ a < b
    /\ maxConcurrent >= 2
    /\ Settled(b)
    /\ future[a] = "pending"
    /\ execState[a] = "running"

\* C25: whenever requests are pending and the active count is below
\* maxConcurrent, the outstanding timers are at least as many as the free
\* slots (so at least one is outstanding).
C25_TimersCoverFreeSlots ==
  (requestQueue # <<>> /\ MapSize(activeRequests) < maxConcurrent)
    => timers >= maxConcurrent - MapSize(activeRequests)

\* C26: the processQueue invocations that have started an execute and not
\* yet run their finally block are as many as the entries of activeRequests
\* and at most maxConcurrent (stated for maxConcurrent >= 1; C27 is about
\* the values below).
C26_CapBoundsExecutions ==
  maxConcurrent >= 1
    => /\ Cardinality(InFlight) = MapSize(activeRequests)
       /\ Cardinality(InFlight) <= maxConcurrent

\* C27: under every setting of ELEVENLABS_MAX_CONCURRENT maxConcurrent is at
\* least 1, and so the first request enqueued on the empty dispatcher is
\* dispatched by the processQueue call of its queueRequest.
C27_MaxConcurrentAtLeastOne ==
  /\ maxConcurrent >= 1
  /\ (nextTask = 2 /\ timers = 0 /\ settleCount[1] = 0) => execCount[1] = 1

\* C28: however getDatabase calls interleave, _initialize is invoked at most
\* once, and a caller that receives the connection (with no close() called)
\* receives it only after _initialize has returned: the pragmas, the tables
\* and the indexes are in place.
C28_HandleOnlyAfterInit ==
  /\ initRuns <= 1
  /\ (returned.op = "getDatabase" /\ ~returned.threw /\ returned.value # "null"
        /\ handle # "closed")
       => returned.initialized

\* The first half of C28 alone.
C28_InitializeOnce == initRuns <= 1

\* C29: a getDatabase call that returns (does not throw) returns an open
\* connection, never null and never a closed one, whatever initialize,
\* getDatabase and close calls came before.
C29_ReturnsOpenHandle ==
  (returned.op = "getDatabase" /\ ~returned.threw)
    => (returned.value = "handle" /\ returned.open)

\* What a step does to the store and hands to the caller of the service.
C30_StoreStep ==
  /\ agents' # agents
       => \E t \in Tasks :
            /\ calls[t].op # "none"
            /\ calls[t].stage = "run" /\ calls'[t].stage = "finished"
            /\ calls[t].done /\ future[t] = "resolved"
            /\ agents' = IF calls[t].service = "createAgent"
                         THEN agents \cup {calls[t].agent}
                         ELSE agents \ {calls[t].agent}
  /\ \A t \in Tasks :
       (calls[t].op # "none" /\ calls[t].stage = "provider"
          /\ calls'[t].stage # "provider" /\ future[t] = "rejected")
         => /\ calls'[t].stage = "finished"
            /\ agents' = agents
            /\ returned'.op = calls[t].service
            /\ returned'.threw
            /\ returned'.message = handleElevenLabsError(calls[t].failure)
  /\ \A t \in Tasks :
       (calls'[t].op # "none" /\ calls'[t].stage \in {"getDatabase", "run"})
         => future'[t] = "resolved"

\* C30: the agents table changes only in the step in which the INSERT of
\* createAgent or the DELETE of deleteAgent settles, that statement was
\* issued after the provider call of the service resolved, and the change
\* is the one row of that call; when the provider call rejected, the
\* service issues no statement (it awaits neither getDatabase nor db.run),
\* leaves the table as it was and throws the translated provider error.
C30_StoreAfterProvider == [][C30_StoreStep]_vars

C30_Witness ==
  /\ returned.op = "deleteAgent"
  /\ returned.threw
  /\ returned.message = <<"ElevenLabs rate limit exceeded">>
  /\ returned.agent \in agents
  /\ db = "handle"
  /\ initPc = Returned
  /\ \E t \in Tasks : /\ calls[t].op # "none"
                      /\ calls[t].done /\ calls[t].service = "createAgent"
                      /\ calls[t].stage = "finished" /\ future[t] = "resolved"
====
